---------------------------- MODULE Spec2Model ----------------------------
(***************************************************************************)
(* ClawFix diagnosis pipeline: the rule registry and detection engine      *)
(* (src/known-issues.js), the script composer and the result store of the  *)
(* diagnose router (src/routes/diagnose.js) and the durable backend        *)
(* (db.js, the second half of src/landing.js).                             *)
(*                                                                         *)
(* JavaScript values are encoded as strings: "undefined", "null", the      *)
(* booleans "true" and "false", and string values in single quotes         *)
(* ("'false'" is the string false, "''" the empty string).  Numeric fields *)
(* are integers, NoNum standing for an absent number.  Texts (status and   *)
(* log strings) are sequences of lower-cased words; the regular            *)
(* expressions of the rules are evaluated on the words.                    *)
(***************************************************************************)
EXTENDS Integers, Sequences, FiniteSets, TLC

----------------------------------------------------------------------------
(* Bounds of the model *)

\* capacity of the in-memory cache; the source keeps 1000 entries
\* (diagnose.js:106), the model keeps the same code with a small capacity
CacheCapacity == 2
\* number of identifiers nanoid hands out in one run
MaxFixes == CacheCapacity + 1
\* largest clock value
MaxTime == 1
\* GET /fix requests waiting for the database at the same time
MaxGets == 1
\* POST /diagnose requests waiting for the AI call at the same time
MaxPosts == 1
\* longest gateway status text, in words
MaxStatusLen == 2

----------------------------------------------------------------------------
(* JavaScript values *)

U == "undefined"
NoNum == -1

\* ToBoolean of an encoded value
Truthy(v) == v \notin {"undefined", "null", "false", "''", "0", "throw"}

B(b) == IF b THEN "true" ELSE "false"

\* x || 0 on a numeric field
OrZero(n) == IF n = NoNum THEN 0 ELSE n

NoText == [kind |-> "undefined", words |-> <<>>]
Str(ws) == [kind |-> "string", words |-> ws]
NumText == [kind |-> "number", words |-> <<>>]

\* t || '' : undefined and the empty string give the empty string; a
\* non-string value (a number) is kept as it is
OrEmpty(t) == IF t.kind = "undefined" \/ (t.kind = "string" /\ t.words = <<>>)
              THEN Str(<<>>) ELSE t

\* a || b on two text fields
OrText(a, b) == IF a.kind = "undefined" \/ (a.kind = "string" /\ a.words = <<>>)
                THEN b ELSE a

\* a + b where one side is a string: string concatenation (a number turns
\* into its digits, which no rule looks for)
Concat(a, b) == Str(a.words \o b.words)

----------------------------------------------------------------------------
(* Regular expressions on texts.  A line break is the word "\n"; the dot   *)
(* of a regular expression does not cross it.                              *)

Has(ws, w) == \E i \in 1..Len(ws) : ws[i] = w

HasAny(ws, S) == \E i \in 1..Len(ws) : ws[i] \in S

\* /a b/ : two words next to each other
Adjacent(ws, a, b) == \E i \in 1..(Len(ws) - 1) : ws[i] = a /\ ws[i + 1] = b

\* /A.*B/ : a word of A, later on the same line a word of B
Then(ws, A, C) ==
  \E i \in 1..Len(ws) : \E j \in (i + 1)..Len(ws) :
     /\ ws[i] \in A /\ ws[j] \in C
     /\ \A k \in i..j : ws[k] # "\n"

\* /A.*B.*C/ on one line
Then3(ws, A, C, D) ==
  \E i \in 1..Len(ws) : \E j \in (i + 1)..Len(ws) : \E l \in (j + 1)..Len(ws) :
     /\ ws[i] \in A /\ ws[j] \in C /\ ws[l] \in D
     /\ \A k \in i..l : ws[k] # "\n"

\* (text.match(/w/g) || []).length
Count(ws, w) == Cardinality({i \in 1..Len(ws) : ws[i] = w})

\* index of the line a position is on
LineOf(ws, i) == Cardinality({k \in 1..i : ws[k] = "\n"})

\* (text.match(/A.*B/g) || []).length : the dot is greedy, so every line
\* gives at most one match
CountThen(ws, A, C) ==
  Cardinality({LineOf(ws, i) : i \in {i \in 1..Len(ws) :
      ws[i] \in A /\ \E j \in (i + 1)..Len(ws) :
         ws[j] \in C /\ \A k \in i..j : ws[k] # "\n"}})

\* stands for more than 500 characters of other log text
Filler == "<more than 500 characters>"

\* /A.*B[\s\S]{0,500}C/ : A then B on one line, C at most 500 characters on
ThenWithin(ws, a, b, c) ==
  \E i \in 1..Len(ws) : \E j \in (i + 1)..Len(ws) : \E l \in (j + 1)..Len(ws) :
     /\ ws[i] = a /\ ws[j] = b /\ ws[l] = c
     /\ \A k \in i..j : ws[k] # "\n"
     /\ \A k \in j..l : ws[k] # Filler

\* regex.test(t) and t.match(regex) coerce or fail by the kind of t
Words(t) == IF t.kind = "string" THEN t.words ELSE <<>>

----------------------------------------------------------------------------
(* The diagnostic snapshot.  d.kind = "null" is a null or undefined         *)
(* payload; a branch whose kind is not "object" is absent, null or a       *)
(* scalar, and optional chaining reads undefined from it.                  *)

Get(d, b, f) == IF d[b].kind = "object" THEN d[b][f] ELSE U

GetNum(d, b, f) == IF d[b].kind = "object" THEN d[b][f] ELSE NoNum

GetText(d, b, f) == IF d[b].kind = "object" THEN d[b][f] ELSE NoText

\* config.agents.defaults.<leaf>
Defaults(d, f) ==
  IF d.config.kind = "object" /\ d.config.defaults.kind = "object"
  THEN d.config.defaults[f] ELSE U

\* config.agents.defaults.heartbeat.every, a duration such as '5m'
Every(d) ==
  IF d.config.kind = "object" /\ d.config.defaults.kind = "object"
  THEN d.config.defaults.hbEvery ELSE [kind |-> "undefined", n |-> 0, unit |-> ""]

\* a + b on two log texts: two numbers add up to a number
Plus(a, b) == IF a.kind = "number" /\ b.kind = "number" THEN NumText
              ELSE Str(Words(a) \o Words(b))

----------------------------------------------------------------------------
(* The detection predicates of KNOWN_ISSUES.  Each returns the encoded     *)
(* value the JavaScript predicate returns, or "throw".                     *)

\* a faulty variant: the toggle is read from another plugin entry
detect_mem0_graph_free_OtherEntry(d) ==
  IF d.kind = "null" THEN "false"
  ELSE B(Get(d, "config", "enableGraphOther") = "true")

detect_mem0_graph_free(d) ==
  IF d.kind = "null" THEN "false"
  ELSE B(Get(d, "config", "enableGraph") = "true")

detect_gateway_not_running(d) ==
  IF d.kind = "null" THEN "throw"
  ELSE LET status == Words(OrEmpty(GetText(d, "openclaw", "gatewayStatus")))
       IN  IF \/ Then(status, {"running"}, {"pid"})
              \/ Adjacent(status, "state", "active")
              \/ Has(status, "listening")
           THEN "false"
           ELSE IF /\ Get(d, "openclaw", "processExists") = "true"
                   /\ Get(d, "openclaw", "portListening") = "false"
           THEN "false"
           ELSE B(\/ Adjacent(status, "not", "running")
                  \/ HasAny(status, {"failed to start", "stopped", "inactive"})
                  \/ /\ ~Truthy(Get(d, "openclaw", "gatewayPid"))
                     /\ ~Has(status, "warning"))

detect_port_conflict(d) ==
  IF d.kind = "null" THEN "throw"
  ELSE B(Has(Words(OrEmpty(GetText(d, "logs", "errors"))), "eaddrinuse"))

detect_browser_port_binding(d) ==
  IF d.kind = "null" THEN "throw"
  ELSE LET logs == Words(OrEmpty(GetText(d, "logs", "errors")))
       IN  B(\/ Then(logs, {"18791"}, {"eaddrinuse"})
             \/ Then3(logs, {"browser"}, {"control"}, {"fail"})
             \/ Then3(logs, {"browser"}, {"service"}, {"start"}))

\* a faulty variant: the rule reports only an explicit false
detect_no_hybrid_search_FailClosed(d) ==
  IF d.kind = "null" THEN "false"
  ELSE B(Defaults(d, "hybridEnabled") = "false")

detect_no_hybrid_search(d) ==
  IF d.kind = "null" THEN "true"
  ELSE B(~Truthy(Defaults(d, "hybridEnabled")))

detect_no_context_pruning(d) ==
  IF d.kind = "null" THEN "true"
  ELSE B(~Truthy(Defaults(d, "contextPruning")))

detect_no_memory_flush(d) ==
  IF d.kind = "null" THEN "true"
  ELSE B(~Truthy(Defaults(d, "memoryFlushEnabled")))

detect_no_soul(d) ==
  IF d.kind = "null" THEN "throw"
  ELSE B(~Truthy(Get(d, "workspace", "hasSoul")))

detect_no_memory_files(d) ==
  IF d.kind = "null" THEN "throw"
  ELSE B(GetNum(d, "workspace", "memoryFiles") = 0)

detect_ggml_metal_crash(d) ==
  IF d.kind = "null" THEN "throw"
  ELSE LET logs == OrEmpty(GetText(d, "logs", "errors"))
           stderr == OrEmpty(GetText(d, "logs", "stderr"))
           both == Words(Plus(logs, stderr))
       IN  B(\/ Then(both, {"ggml_assert"}, {"ggml-metal"})
             \/ Then(both, {"ggml-metal"}, {"ggml_assert", "assert"}))

detect_orphan_tool_calls(d) ==
  IF d.kind = "null" THEN "throw"
  ELSE LET logs == Words(OrEmpty(GetText(d, "logs", "errors")))
       IN  B(\/ Then(logs, {"tool_call_id"}, {"not found"})
             \/ Then(logs, {"orphan"}, {"tool", "tool_call_id"}))

detect_duplicate_plugin(d) ==
  IF d.kind = "null" THEN "throw"
  ELSE B(Has(Words(OrEmpty(GetText(d, "openclaw", "gatewayStatus"))),
             "duplicate plugin id detected"))

detect_state_dir_migration(d) ==
  IF d.kind = "null" THEN "throw"
  ELSE B(Has(Words(OrEmpty(GetText(d, "openclaw", "gatewayStatus"))),
             "state dir migration skipped"))

detect_large_workspace_files(d) ==
  IF d.kind = "null" THEN "throw"
  ELSE B(/\ OrZero(GetNum(d, "workspace", "mdFiles")) > 100
         /\ ~Truthy(Get(d, "workspace", "hasSoul")))

detect_no_compaction_config(d) ==
  IF d.kind = "null" THEN "true"
  ELSE B(/\ ~Truthy(Defaults(d, "reserveTokensFloor"))
         /\ ~Truthy(Defaults(d, "compactionMode")))

detect_missing_agents_md(d) ==
  IF d.kind = "null" THEN "throw"
  ELSE B(~Truthy(Get(d, "workspace", "hasAgents")))

\* hb?.every && !hb?.model : a falsy every is returned as it is
detect_heartbeat_no_model_override(d) ==
  IF d.kind = "null" THEN "false"
  ELSE IF Every(d).kind # "string" THEN U
  ELSE B(~Truthy(Defaults(d, "hbModel")))

detect_session_transcript_not_indexed(d) ==
  IF d.kind = "null" THEN "true"
  ELSE B(~Truthy(Defaults(d, "sessionTranscriptsEnabled")))

\* !pruning && heartbeat?.every && /^\d+m$/.test(every) && parseInt(every) < 30
detect_high_token_usage(d) ==
  IF d.kind = "null" THEN "false"
  ELSE IF Truthy(Defaults(d, "contextPruning")) THEN "false"
  ELSE IF Every(d).kind # "string" THEN U
  ELSE IF Every(d).unit # "m" THEN "false"
  ELSE B(Every(d).n < 30)

detect_auto_update_restart_loop(d) ==
  IF d.kind = "null" THEN "throw"
  ELSE LET autoUpdate == Get(d, "config", "autoUpdateEnabled") = "true"
           logs == Plus(OrEmpty(GetText(d, "logs", "errors")),
                        OrEmpty(GetText(d, "logs", "gatewayLog")))
           sigtermCount == Count(logs.words, "signal sigterm received")
           restartCount == CountThen(logs.words, {"listening"}, {"pid"})
       IN  IF logs.kind = "number" THEN "throw"
           ELSE B(autoUpdate /\ (sigtermCount >= 2 \/ restartCount >= 3))

detect_auto_update_enabled_warning(d) ==
  IF d.kind = "null" THEN "throw"
  ELSE B(Get(d, "config", "autoUpdateEnabled") = "true")

detect_config_reload_sigterm_cascade(d) ==
  IF d.kind = "null" THEN "throw"
  ELSE LET logs == Plus(OrEmpty(GetText(d, "logs", "errors")),
                        OrEmpty(GetText(d, "logs", "gatewayLog")))
           reloadAndSigterm ==
             ThenWithin(logs.words, "config change detected",
                        "evaluating reload", "signal sigterm received")
           multipleReloads ==
             CountThen(logs.words, {"config change detected"},
                       {"evaluating reload"}) >= 3
       IN  IF logs.kind = "number" THEN "throw"
           ELSE B(reloadAndSigterm \/ multipleReloads)

\* undefined > 2 and undefined < 300 are false
detect_gateway_extended_downtime(d) ==
  IF d.kind = "null" THEN "throw"
  ELSE LET runs == GetNum(d, "service", "runs")
           uptimeSeconds == GetNum(d, "service", "uptimeSeconds")
           nRestarts == GetNum(d, "service", "nRestarts")
           short == uptimeSeconds # NoNum /\ uptimeSeconds < 300
       IN  IF runs # NoNum /\ runs > 2 /\ short THEN "true"
           ELSE IF nRestarts # NoNum /\ nRestarts > 0 /\ short THEN "true"
           ELSE "false"

detect_browser_relay_handshake_spam(d) ==
  IF d.kind = "null" THEN "throw"
  ELSE LET logs == OrText(GetText(d, "logs", "stderr"),
                          OrText(GetText(d, "logs", "errors"), Str(<<>>)))
           handshakeErrors ==
             CountThen(logs.words, {"invalid handshake", "closed before connect"},
                       {"chrome-extension"})
       IN  IF logs.kind = "number" THEN "throw"
           ELSE B(handshakeErrors >= 5)

detect_matrix_sync_timeout_spam(d) ==
  IF d.kind = "null" THEN "throw"
  ELSE LET logs == OrText(GetText(d, "logs", "stderr"),
                          OrText(GetText(d, "logs", "errors"), Str(<<>>)))
           timeouts == Count(logs.words, "esockettimedout")
       IN  IF logs.kind = "number" THEN "throw"
           ELSE B(timeouts >= 3)

detect_oversized_error_log(d) ==
  IF d.kind = "null" THEN "throw"
  ELSE B(OrZero(GetNum(d, "logs", "errLogSizeMB")) > 50)

detect_launchd_corrupted_state(d) ==
  IF d.kind = "null" THEN "throw"
  ELSE LET serviceState == Get(d, "service", "state")
           exitCode == Get(d, "service", "exitCode")
           manager == Get(d, "service", "manager")
           logs == Words(Plus(OrEmpty(GetText(d, "logs", "errors")),
                              OrEmpty(GetText(d, "logs", "stderr"))))
           sigtermInLogs == OrZero(GetNum(d, "logs", "sigtermCount")) >= 1
       IN  IF manager = "'launchd'" /\ (serviceState = "'sigterm'" \/ exitCode = "'-15'")
           THEN "true"
           ELSE IF /\ manager = "'launchd'"
                   /\ ~Truthy(Get(d, "openclaw", "processExists"))
                   /\ sigtermInLogs
           THEN "true"
           ELSE IF \/ Then(logs, {"launchctl"}, {"i/o error"})
                   \/ Then3(logs, {"service"}, {"not found"}, {"load", "evaluating reload"})
           THEN "true"
           ELSE "false"

detect_gateway_zombie(d) ==
  IF d.kind = "null" THEN "throw"
  ELSE LET processExists == Get(d, "openclaw", "processExists") = "true"
           portListening == \/ Get(d, "openclaw", "portListening") = "false"
                            \/ Get(d, "openclaw", "portListening") = "'false'"
       IN  B(processExists /\ portListening)

\* a faulty variant: the state of the process is not looked at
detect_gateway_not_listening_PortOnly(d) ==
  IF d.kind = "null" THEN "throw"
  ELSE LET portListening == Get(d, "openclaw", "portListening")
       IN  B(portListening = "false" \/ portListening = "'false'")

detect_gateway_not_listening(d) ==
  IF d.kind = "null" THEN "throw"
  ELSE LET portListening == Get(d, "openclaw", "portListening")
           portNotListening == portListening = "false" \/ portListening = "'false'"
           processNotExists == \/ ~Truthy(Get(d, "openclaw", "processExists"))
                               \/ Get(d, "openclaw", "processExists") = "'false'"
       IN  IF portListening = U THEN "false"
           ELSE B(portNotListening /\ processNotExists)

detect_gateway_watchdog_missing(d) ==
  IF d.kind = "null" THEN "throw"
  ELSE LET manager == Get(d, "service", "manager")
           sigtermCount == OrZero(GetNum(d, "logs", "sigtermCount"))
           serviceState == Get(d, "service", "state")
           hasCrashed == \/ sigtermCount >= 1
                         \/ serviceState = "'sigterm'"
                         \/ serviceState = "'crashed'"
           hasPlist == manager = "'launchd'"
       IN  B(hasPlist /\ hasCrashed)

\* the predicate of a rule
Detect(id, d) ==
  CASE id = "mem0-graph-free" -> detect_mem0_graph_free(d)
    [] id = "gateway-not-running" -> detect_gateway_not_running(d)
    [] id = "port-conflict" -> detect_port_conflict(d)
    [] id = "browser-port-binding" -> detect_browser_port_binding(d)
    [] id = "no-hybrid-search" -> detect_no_hybrid_search(d)
    [] id = "no-context-pruning" -> detect_no_context_pruning(d)
    [] id = "no-memory-flush" -> detect_no_memory_flush(d)
    [] id = "no-soul" -> detect_no_soul(d)
    [] id = "no-memory-files" -> detect_no_memory_files(d)
    [] id = "ggml-metal-crash" -> detect_ggml_metal_crash(d)
    [] id = "orphan-tool-calls" -> detect_orphan_tool_calls(d)
    [] id = "duplicate-plugin" -> detect_duplicate_plugin(d)
    [] id = "state-dir-migration" -> detect_state_dir_migration(d)
    [] id = "large-workspace-files" -> detect_large_workspace_files(d)
    [] id = "no-compaction-config" -> detect_no_compaction_config(d)
    [] id = "missing-agents-md" -> detect_missing_agents_md(d)
    [] id = "heartbeat-no-model-override" -> detect_heartbeat_no_model_override(d)
    [] id = "session-transcript-not-indexed" -> detect_session_transcript_not_indexed(d)
    [] id = "high-token-usage" -> detect_high_token_usage(d)
    [] id = "auto-update-restart-loop" -> detect_auto_update_restart_loop(d)
    [] id = "auto-update-enabled-warning" -> detect_auto_update_enabled_warning(d)
    [] id = "config-reload-sigterm-cascade" -> detect_config_reload_sigterm_cascade(d)
    [] id = "gateway-extended-downtime" -> detect_gateway_extended_downtime(d)
    [] id = "browser-relay-handshake-spam" -> detect_browser_relay_handshake_spam(d)
    [] id = "matrix-sync-timeout-spam" -> detect_matrix_sync_timeout_spam(d)
    [] id = "oversized-error-log" -> detect_oversized_error_log(d)
    [] id = "launchd-corrupted-state" -> detect_launchd_corrupted_state(d)
    [] id = "gateway-zombie" -> detect_gateway_zombie(d)
    [] id = "gateway-not-listening" -> detect_gateway_not_listening(d)
    [] id = "gateway-watchdog-missing" -> detect_gateway_watchdog_missing(d)

\* the registry, in declaration order.  A remediation template is kept as
\* the facts the composer and the shell read from its text: whether it
\* mentions openclaw.json, whether it has an exit statement, and whether it
\* copies the configuration file to a backup of its own.
KNOWN_ISSUES ==
  <<
     [id |-> "mem0-graph-free", severity |-> "critical",
      title |-> "Mem0 enableGraph on Free plan", description |-> "description of mem0-graph-free",
      fix |-> [of |-> "mem0-graph-free", includesConfig |-> TRUE, exits |-> FALSE, copiesConfig |-> FALSE]],
     [id |-> "gateway-not-running", severity |-> "critical",
      title |-> "Gateway is not running", description |-> "description of gateway-not-running",
      fix |-> [of |-> "gateway-not-running", includesConfig |-> TRUE, exits |-> TRUE, copiesConfig |-> FALSE]],
     [id |-> "port-conflict", severity |-> "critical",
      title |-> "Port conflict (EADDRINUSE)", description |-> "description of port-conflict",
      fix |-> [of |-> "port-conflict", includesConfig |-> TRUE, exits |-> FALSE, copiesConfig |-> FALSE]],
     [id |-> "browser-port-binding", severity |-> "high",
      title |-> "Browser control port not binding (18791)", description |-> "description of browser-port-binding",
      fix |-> [of |-> "browser-port-binding", includesConfig |-> FALSE, exits |-> FALSE, copiesConfig |-> FALSE]],
     [id |-> "no-hybrid-search", severity |-> "medium",
      title |-> "Hybrid search not enabled", description |-> "description of no-hybrid-search",
      fix |-> [of |-> "no-hybrid-search", includesConfig |-> TRUE, exits |-> FALSE, copiesConfig |-> FALSE]],
     [id |-> "no-context-pruning", severity |-> "medium",
      title |-> "No context pruning configured", description |-> "description of no-context-pruning",
      fix |-> [of |-> "no-context-pruning", includesConfig |-> TRUE, exits |-> FALSE, copiesConfig |-> FALSE]],
     [id |-> "no-memory-flush", severity |-> "high",
      title |-> "Memory flush not enabled", description |-> "description of no-memory-flush",
      fix |-> [of |-> "no-memory-flush", includesConfig |-> TRUE, exits |-> FALSE, copiesConfig |-> FALSE]],
     [id |-> "no-soul", severity |-> "low",
      title |-> "No SOUL.md found", description |-> "description of no-soul",
      fix |-> [of |-> "no-soul", includesConfig |-> TRUE, exits |-> FALSE, copiesConfig |-> FALSE]],
     [id |-> "no-memory-files", severity |-> "low",
      title |-> "No memory files found", description |-> "description of no-memory-files",
      fix |-> [of |-> "no-memory-files", includesConfig |-> TRUE, exits |-> FALSE, copiesConfig |-> FALSE]],
     [id |-> "ggml-metal-crash", severity |-> "high",
      title |-> "GGML Metal GPU crash (macOS)", description |-> "description of ggml-metal-crash",
      fix |-> [of |-> "ggml-metal-crash", includesConfig |-> TRUE, exits |-> FALSE, copiesConfig |-> FALSE]],
     [id |-> "orphan-tool-calls", severity |-> "medium",
      title |-> "Orphan tool_calls in session history", description |-> "description of orphan-tool-calls",
      fix |-> [of |-> "orphan-tool-calls", includesConfig |-> FALSE, exits |-> FALSE, copiesConfig |-> FALSE]],
     [id |-> "duplicate-plugin", severity |-> "medium",
      title |-> "Duplicate plugin detected", description |-> "description of duplicate-plugin",
      fix |-> [of |-> "duplicate-plugin", includesConfig |-> TRUE, exits |-> FALSE, copiesConfig |-> FALSE]],
     [id |-> "state-dir-migration", severity |-> "low",
      title |-> "State directory migration skipped", description |-> "description of state-dir-migration",
      fix |-> [of |-> "state-dir-migration", includesConfig |-> FALSE, exits |-> FALSE, copiesConfig |-> FALSE]],
     [id |-> "large-workspace-files", severity |-> "medium",
      title |-> "Large workspace loaded every session", description |-> "description of large-workspace-files",
      fix |-> [of |-> "large-workspace-files", includesConfig |-> TRUE, exits |-> FALSE, copiesConfig |-> FALSE]],
     [id |-> "no-compaction-config", severity |-> "medium",
      title |-> "No compaction safeguards", description |-> "description of no-compaction-config",
      fix |-> [of |-> "no-compaction-config", includesConfig |-> TRUE, exits |-> FALSE, copiesConfig |-> FALSE]],
     [id |-> "missing-agents-md", severity |-> "low",
      title |-> "No AGENTS.md found", description |-> "description of missing-agents-md",
      fix |-> [of |-> "missing-agents-md", includesConfig |-> TRUE, exits |-> FALSE, copiesConfig |-> FALSE]],
     [id |-> "heartbeat-no-model-override", severity |-> "low",
      title |-> "Heartbeat using expensive model", description |-> "description of heartbeat-no-model-override",
      fix |-> [of |-> "heartbeat-no-model-override", includesConfig |-> TRUE, exits |-> FALSE, copiesConfig |-> FALSE]],
     [id |-> "session-transcript-not-indexed", severity |-> "low",
      title |-> "Session transcripts not indexed for search", description |-> "description of session-transcript-not-indexed",
      fix |-> [of |-> "session-transcript-not-indexed", includesConfig |-> TRUE, exits |-> FALSE, copiesConfig |-> FALSE]],
     [id |-> "high-token-usage", severity |-> "medium",
      title |-> "High token consumption detected", description |-> "description of high-token-usage",
      fix |-> [of |-> "high-token-usage", includesConfig |-> TRUE, exits |-> FALSE, copiesConfig |-> FALSE]],
     [id |-> "auto-update-restart-loop", severity |-> "critical",
      title |-> "Auto-update causing gateway restart loop", description |-> "description of auto-update-restart-loop",
      fix |-> [of |-> "auto-update-restart-loop", includesConfig |-> TRUE, exits |-> FALSE, copiesConfig |-> TRUE]],
     [id |-> "auto-update-enabled-warning", severity |-> "medium",
      title |-> "Auto-update is enabled (risk of restart loops)", description |-> "description of auto-update-enabled-warning",
      fix |-> [of |-> "auto-update-enabled-warning", includesConfig |-> TRUE, exits |-> FALSE, copiesConfig |-> TRUE]],
     [id |-> "config-reload-sigterm-cascade", severity |-> "high",
      title |-> "Config reload triggering gateway restarts", description |-> "description of config-reload-sigterm-cascade",
      fix |-> [of |-> "config-reload-sigterm-cascade", includesConfig |-> TRUE, exits |-> FALSE, copiesConfig |-> FALSE]],
     [id |-> "gateway-extended-downtime", severity |-> "critical",
      title |-> "Gateway was down for extended period", description |-> "description of gateway-extended-downtime",
      fix |-> [of |-> "gateway-extended-downtime", includesConfig |-> TRUE, exits |-> FALSE, copiesConfig |-> FALSE]],
     [id |-> "browser-relay-handshake-spam", severity |-> "medium",
      title |-> "Browser Relay extension spamming invalid handshakes", description |-> "description of browser-relay-handshake-spam",
      fix |-> [of |-> "browser-relay-handshake-spam", includesConfig |-> TRUE, exits |-> FALSE, copiesConfig |-> FALSE]],
     [id |-> "matrix-sync-timeout-spam", severity |-> "low",
      title |-> "Matrix sync timeouts spamming error log", description |-> "description of matrix-sync-timeout-spam",
      fix |-> [of |-> "matrix-sync-timeout-spam", includesConfig |-> TRUE, exits |-> FALSE, copiesConfig |-> FALSE]],
     [id |-> "oversized-error-log", severity |-> "medium",
      title |-> "Error log is very large", description |-> "description of oversized-error-log",
      fix |-> [of |-> "oversized-error-log", includesConfig |-> FALSE, exits |-> FALSE, copiesConfig |-> FALSE]],
     [id |-> "launchd-corrupted-state", severity |-> "critical",
      title |-> "LaunchAgent in corrupted state (SIGTERM crash loop)", description |-> "description of launchd-corrupted-state",
      fix |-> [of |-> "launchd-corrupted-state", includesConfig |-> FALSE, exits |-> TRUE, copiesConfig |-> FALSE]],
     [id |-> "gateway-zombie", severity |-> "critical",
      title |-> "Zombie gateway process (PID exists but not listening)", description |-> "description of gateway-zombie",
      fix |-> [of |-> "gateway-zombie", includesConfig |-> TRUE, exits |-> FALSE, copiesConfig |-> FALSE]],
     [id |-> "gateway-not-listening", severity |-> "critical",
      title |-> "Gateway port not listening", description |-> "description of gateway-not-listening",
      fix |-> [of |-> "gateway-not-listening", includesConfig |-> TRUE, exits |-> FALSE, copiesConfig |-> FALSE]],
     [id |-> "gateway-watchdog-missing", severity |-> "high",
      title |-> "No gateway watchdog installed", description |-> "description of gateway-watchdog-missing",
      fix |-> [of |-> "gateway-watchdog-missing", includesConfig |-> TRUE, exits |-> FALSE, copiesConfig |-> FALSE]]
  >>


RuleIds == {KNOWN_ISSUES[i].id : i \in 1..Len(KNOWN_ISSUES)}

\* position of a rule in the registry
RuleIndex(id) == CHOOSE i \in 1..Len(KNOWN_ISSUES) : KNOWN_ISSUES[i].id = id

----------------------------------------------------------------------------
(* Array.prototype.filter and map.  A callback that throws ends the call:  *)
(* the outcome is then [threw |-> TRUE].                                   *)

RECURSIVE FilterFrom(_, _, _)
\* filter s[i..] with the callback outcomes r (one encoded value per element)
FilterFrom(s, r, i) ==
  IF i > Len(s) THEN [threw |-> FALSE, items |-> <<>>]
  ELSE IF r[i] = "throw" THEN [threw |-> TRUE, items |-> <<>>]
  ELSE LET rest == FilterFrom(s, r, i + 1)
       IN  IF rest.threw THEN rest
           ELSE IF Truthy(r[i]) THEN [rest EXCEPT !.items = <<s[i]>> \o @]
           ELSE rest

\* a faulty variant: the predicate is called without try and catch
TryDetect_NoCatch(issue, d) == Detect(issue.id, d)

\* try { return issue.detect(diagnostic) } catch { return false }
TryDetect(issue, d) ==
  LET r == Detect(issue.id, d) IN IF r = "throw" THEN "false" ELSE r

\* a faulty variant: the issues are sorted by severity
detectIssues_BySeverity(d) ==
  LET kept == FilterFrom(KNOWN_ISSUES,
                         [i \in 1..Len(KNOWN_ISSUES) |->
                            LET r == Detect(KNOWN_ISSUES[i].id, d)
                            IN  IF r = "throw" THEN "false" ELSE r], 1)
      Of(s) == SelectSeq(kept.items, LAMBDA issue : issue.severity = s)
  IN  [threw |-> kept.threw,
       items |-> Of("critical") \o Of("high") \o Of("medium") \o Of("low")]

\* detectIssues(diagnostic)
detectIssues(d) ==
  LET kept == FilterFrom(KNOWN_ISSUES,
                         [i \in 1..Len(KNOWN_ISSUES) |-> TryDetect(KNOWN_ISSUES[i], d)], 1)
  IN  [threw |-> kept.threw,
       items |-> [i \in 1..Len(kept.items) |->
                    [id |-> kept.items[i].id,
                     severity |-> kept.items[i].severity,
                     title |-> kept.items[i].title,
                     description |-> kept.items[i].description,
                     fix |-> kept.items[i].fix]]]

Ids(issues) == [i \in 1..Len(issues) |-> issues[i].id]

----------------------------------------------------------------------------
(* The analysis augmenter *)

\* AI_CONFIG.model
AiModel == "'minimax/minimax-m2.5'"

\* answers of the external model: the sections extractSection finds in the
\* text ('' when a section is missing) and the first 500 characters
AiResponses ==
  { [summary |-> "'Gateway looks healthy'", optimization |-> "'Use a cheaper model'",
     fix |-> "'echo ai fix'", head |-> "'## Summary Gateway looks healthy'"],
    [summary |-> "'Gateway port is wrong'", optimization |-> "''",
     fix |-> "'jq .gateway.port=18789 ~/.openclaw/openclaw.json'",
     head |-> "'## Summary Gateway port is wrong'"] }

\* text.includes('openclaw.json') on the texts the external model answers
MentionsConfig(text) == text = "'jq .gateway.port=18789 ~/.openclaw/openclaw.json'"

\* extractSection(text, keyword)
extractSection(response, keyword) == response[keyword]

\* a || b on encoded values
Or(a, b) == IF Truthy(a) THEN a ELSE b

Fallback(n, why) ==
  [summary |-> "'Pattern matching found " \o ToString(n)
                 \o " issue(s). AI analysis unavailable (" \o why \o ").'",
   insights |-> "''", additionalIssues |-> <<>>, additionalFixes |-> "''"]

\* analyzeWithAI(diagnostic, knownIssues); call is the outcome of callAI:
\* [ok |-> TRUE, response |-> r] or [ok |-> FALSE, response |-> r]
analyzeWithAI(hasKey, knownIssues, call) ==
  IF ~hasKey THEN Fallback(Len(knownIssues), "no API key configured")
  ELSE IF ~call.ok THEN Fallback(Len(knownIssues), "fetch failed")
  ELSE [summary |-> Or(extractSection(call.response, "summary"), call.response.head),
        insights |-> Or(extractSection(call.response, "optimization"), "''"),
        additionalIssues |-> <<>>,
        additionalFixes |-> Or(extractSection(call.response, "fix"), "''")]

----------------------------------------------------------------------------
(* The script composer.  A script is a sequence of lines; a line is kept   *)
(* as its kind and what it was made from.                                  *)

Line(k) == [k |-> k, of |-> "", fixId |-> 0, ts |-> 0]

\* a faulty variant: the text of the augmenter also triggers the restart
generateFixScript_RestartOnAi(knownIssues, aiAnalysis, fixId, ts) ==
  LET head == << Line("#!/usr/bin/env bash"),
                 [Line("# ClawFix Fix Script") EXCEPT !.fixId = fixId],
                 [Line("# Generated") EXCEPT !.ts = ts],
                 Line("# Review each step before running!"),
                 Line("#"),
                 Line("# Usage: bash fix.sh"),
                 Line(""),
                 Line("set -euo pipefail"),
                 Line(""),
                 Line("# Backup current config"),
                 Line("if [ -f ~/.openclaw/openclaw.json ]; then"),
                 Line("  cp ~/.openclaw/openclaw.json ~/.openclaw/openclaw.json.bak.$(date +%s)"),
                 Line("  echo Config backed up"),
                 Line("fi"),
                 Line("") >>
      Block(issue) == << [Line("# Fix: title (severity)") EXCEPT !.of = issue.id],
                         [Line("# description") EXCEPT !.of = issue.id],
                         [Line("fix") EXCEPT !.of = issue.id],
                         Line("") >>
      RECURSIVE Blocks(_)
      Blocks(i) == IF i > Len(knownIssues) THEN <<>>
                   ELSE Block(knownIssues[i]) \o Blocks(i + 1)
      ai == IF Truthy(aiAnalysis.additionalFixes)
            THEN << Line("# Additional AI-Recommended Fixes"),
                    [Line("additionalFixes") EXCEPT !.of = aiAnalysis.additionalFixes],
                    Line("") >>
            ELSE <<>>
      restart == IF \/ \E i \in 1..Len(knownIssues) : knownIssues[i].fix.includesConfig
                    \/ MentionsConfig(aiAnalysis.additionalFixes)
                 THEN << Line("# Restart Gateway to Apply Changes"),
                         Line("echo Restarting OpenClaw gateway..."),
                         Line("openclaw gateway restart 2>/dev/null || echo Could not restart"),
                         Line("") >>
                 ELSE <<>>
      tail == << Line("echo"),
                 Line("echo All fixes applied!"),
                 [Line("echo Fix ID") EXCEPT !.fixId = fixId],
                 Line(""),
                 Line("# Optional: Tell ClawFix if this worked"),
                 Line("# This helps us improve fixes for everyone. Remove if you prefer."),
                 [Line("curl -s -X POST https://clawfix.dev/api/feedback/") EXCEPT !.fixId = fixId],
                 Line("  -H Content-Type: application/json"),
                 Line("  -d {success: true} &>/dev/null || true") >>
  IN  head \o Blocks(1) \o ai \o restart \o tail

\* generateFixScript(knownIssues, aiAnalysis, fixId), generated at time ts
generateFixScript(knownIssues, aiAnalysis, fixId, ts) ==
  LET head == << Line("#!/usr/bin/env bash"),
                 [Line("# ClawFix Fix Script") EXCEPT !.fixId = fixId],
                 [Line("# Generated") EXCEPT !.ts = ts],
                 Line("# Review each step before running!"),
                 Line("#"),
                 Line("# Usage: bash fix.sh"),
                 Line(""),
                 Line("set -euo pipefail"),
                 Line(""),
                 Line("# Backup current config"),
                 Line("if [ -f ~/.openclaw/openclaw.json ]; then"),
                 Line("  cp ~/.openclaw/openclaw.json ~/.openclaw/openclaw.json.bak.$(date +%s)"),
                 Line("  echo Config backed up"),
                 Line("fi"),
                 Line("") >>
      Block(issue) == << [Line("# Fix: title (severity)") EXCEPT !.of = issue.id],
                         [Line("# description") EXCEPT !.of = issue.id],
                         [Line("fix") EXCEPT !.of = issue.id],
                         Line("") >>
      RECURSIVE Blocks(_)
      Blocks(i) == IF i > Len(knownIssues) THEN <<>>
                   ELSE Block(knownIssues[i]) \o Blocks(i + 1)
      ai == IF Truthy(aiAnalysis.additionalFixes)
            THEN << Line("# Additional AI-Recommended Fixes"),
                    [Line("additionalFixes") EXCEPT !.of = aiAnalysis.additionalFixes],
                    Line("") >>
            ELSE <<>>
      restart == IF \E i \in 1..Len(knownIssues) : knownIssues[i].fix.includesConfig
                 THEN << Line("# Restart Gateway to Apply Changes"),
                         Line("echo Restarting OpenClaw gateway..."),
                         Line("openclaw gateway restart 2>/dev/null || echo Could not restart"),
                         Line("") >>
                 ELSE <<>>
      tail == << Line("echo"),
                 Line("echo All fixes applied!"),
                 [Line("echo Fix ID") EXCEPT !.fixId = fixId],
                 Line(""),
                 Line("# Optional: Tell ClawFix if this worked"),
                 Line("# This helps us improve fixes for everyone. Remove if you prefer."),
                 [Line("curl -s -X POST https://clawfix.dev/api/feedback/") EXCEPT !.fixId = fixId],
                 Line("  -H Content-Type: application/json"),
                 Line("  -d {success: true} &>/dev/null || true") >>
  IN  head \o Blocks(1) \o ai \o restart \o tail

\* the rule ids of the remediation blocks of a script, in script order
FixBlocks(script) ==
  LET fixes == SelectSeq(script, LAMBDA l : l.k = "fix")
  IN  [i \in 1..Len(fixes) |-> fixes[i].of]

----------------------------------------------------------------------------
(* The diagnosis result *)

InternalKeys == {"_hostHash", "_os", "_arch", "_nodeVersion", "_openclawVersion", "_aiIssues"}

\* the result object of POST /diagnose
Result(d, knownIssues, aiAnalysis, fixId, ts) ==
  [fixId |-> fixId,
   timestamp |-> ts,
   issuesFound |-> Len(knownIssues) + Len(aiAnalysis.additionalIssues),
   knownIssues |-> [i \in 1..Len(knownIssues) |->
                      [id |-> knownIssues[i].id,
                       severity |-> knownIssues[i].severity,
                       title |-> knownIssues[i].title,
                       description |-> knownIssues[i].description]],
   analysis |-> aiAnalysis.summary,
   fixScript |-> generateFixScript(knownIssues, aiAnalysis, fixId, ts),
   aiInsights |-> Or(aiAnalysis.insights, "''"),
   model |-> AiModel,
   _hostHash |-> d.hostHash,
   _os |-> Get(d, "system", "os"),
   _arch |-> Get(d, "system", "arch"),
   _nodeVersion |-> Get(d, "system", "nodeVersion"),
   _openclawVersion |-> Get(d, "openclaw", "version"),
   _aiIssues |-> aiAnalysis.additionalIssues]

\* const { _hostHash, _os, _arch, _nodeVersion, _openclawVersion, _aiIssues,
\*         ...clientResult } = result
StripInternal(result) == [f \in (DOMAIN result) \ InternalKeys |-> result[f]]

\* the keys whose value can be undefined
OptionalKeys == {"_hostHash", "_os", "_arch", "_nodeVersion", "_openclawVersion"}

\* res.json(value): JSON.stringify leaves out the keys whose value is
\* undefined
ToJson(value) ==
  [f \in {g \in DOMAIN value : ~(g \in OptionalKeys /\ value[g] = U)} |-> value[f]]

----------------------------------------------------------------------------
(* The cache: a JavaScript Map, which keeps its keys in insertion order    *)

MapHas(m, k) == \E i \in 1..Len(m) : m[i].key = k

MapGet(m, k) == m[CHOOSE i \in 1..Len(m) : m[i].key = k].val

\* Map.set: a new key goes to the end, a known key keeps its place
MapSet(m, k, v) ==
  IF MapHas(m, k)
  THEN [i \in 1..Len(m) |-> IF m[i].key = k THEN [key |-> k, val |-> v] ELSE m[i]]
  ELSE Append(m, [key |-> k, val |-> v])

\* a faulty variant: the newest key is deleted
MapDeleteOldest_Newest(m) == SubSeq(m, 1, Len(m) - 1)

\* fixes.delete(fixes.keys().next().value)
MapDeleteOldest(m) == Tail(m)

MapKeys(m) == [i \in 1..Len(m) |-> m[i].key]

\* if (fixes.size > 1000) delete the oldest key
Evict(m) == IF Len(m) > CacheCapacity THEN MapDeleteOldest(m) ELSE m

----------------------------------------------------------------------------
(* The durable backend (db.js) *)

\* v || null
OrNull(v) == IF Truthy(v) THEN v ELSE "null"

\* the text inside the quotes of an encoded string
Unquote(v) ==
  CASE v = "'Darwin'" -> "Darwin"
    [] v = "'arm64'" -> "arm64"
    [] v = "''" -> ""
    [] OTHER -> v

\* the row storeDiagnosis inserts; created_at DEFAULT NOW(), outcome
\* DEFAULT 'unknown'
Row(result, source, ts) ==
  [id |-> result.fixId,
   created_at |-> ts,
   host_hash |-> OrNull(result._hostHash),
   os |-> OrNull(result._os),
   arch |-> OrNull(result._arch),
   node_version |-> OrNull(result._nodeVersion),
   openclaw_version |-> OrNull(result._openclawVersion),
   issues_pattern |-> Ids(result.knownIssues),
   issues_ai |-> result._aiIssues,
   issues_count |-> result.issuesFound,
   ai_model |-> OrNull(result.model),
   fix_script |-> result.fixScript,
   ai_summary |-> OrNull(result.analysis),
   ai_insights |-> OrNull(result.aiInsights),
   known_issues_detail |-> result.knownIssues,
   service_manager |-> "null",
   service_state |-> "null",
   outcome |-> "'unknown'",
   source |-> source]

\* a faulty variant: ON CONFLICT (id) DO NOTHING
UpsertPattern_DoNothing(pats, issue) ==
  IF issue.id \in DOMAIN pats
  THEN pats
  ELSE [id \in DOMAIN pats \cup {issue.id} |->
          IF id = issue.id
          THEN [title |-> issue.title, severity |-> issue.severity,
                times_detected |-> 1, times_fixed |-> 0,
                success_rate |-> [null |-> TRUE, num |-> 0, den |-> 1]]
          ELSE pats[id]]

\* INSERT INTO patterns ... ON CONFLICT (id) DO UPDATE SET
\*   times_detected = patterns.times_detected + 1
UpsertPattern(pats, issue) ==
  IF issue.id \in DOMAIN pats
  THEN [pats EXCEPT ![issue.id].times_detected = @ + 1]
  ELSE [id \in DOMAIN pats \cup {issue.id} |->
          IF id = issue.id
          THEN [title |-> issue.title, severity |-> issue.severity,
                times_detected |-> 1, times_fixed |-> 0,
                success_rate |-> [null |-> TRUE, num |-> 0, den |-> 1]]
          ELSE pats[id]]

\* the object getDiagnosis builds from a row
FromRow(row, pats) ==
  LET detail == row.known_issues_detail
      rebuilt == SelectSeq(row.issues_pattern, LAMBDA pid : pid \in DOMAIN pats)
      knownIssues ==
        IF Len(detail) = 0 /\ Len(row.issues_pattern) > 0
        THEN [i \in 1..Len(rebuilt) |->
                [id |-> rebuilt[i], severity |-> pats[rebuilt[i]].severity,
                 title |-> pats[rebuilt[i]].title, description |-> ""]]
        ELSE detail
  IN  [fixId |-> row.id,
       timestamp |-> row.created_at,
       issuesFound |-> row.issues_count,
       knownIssues |-> knownIssues,
       analysis |-> Or(row.ai_summary,
                       "'Pattern matching found " \o ToString(row.issues_count) \o " issue(s).'"),
       fixScript |-> row.fix_script,
       aiInsights |-> Or(row.ai_insights, "''"),
       model |-> Or(row.ai_model, "'pattern-matching'"),
       systemInfo |->
         [os |-> IF Truthy(row.os)
                 THEN "'" \o Unquote(row.os) \o " (" \o Unquote(Or(row.arch, "''")) \o ")'"
                 ELSE "null",
          nodeVersion |-> OrNull(row.node_version),
          openclawVersion |-> OrNull(row.openclaw_version),
          serviceManager |-> OrNull(row.service_manager),
          serviceState |-> OrNull(row.service_state)]]

----------------------------------------------------------------------------
(* Diagnostic snapshots *)

NoEvery == [kind |-> "undefined", n |-> 0, unit |-> ""]

\* a healthy installation: no rule matches
QuietSystem == [kind |-> "object", os |-> "'Darwin'", arch |-> "'arm64'", nodeVersion |-> "'v22.1.0'"]

QuietOpenclaw ==
  [kind |-> "object", version |-> "'2026.2.26'",
   gatewayStatus |-> Str(<<"running", "pid">>),
   processExists |-> "true", portListening |-> "true", gatewayPid |-> "'4242'"]

QuietDefaults ==
  [kind |-> "object", hybridEnabled |-> "true", contextPruning |-> "{}",
   memoryFlushEnabled |-> "true", reserveTokensFloor |-> "20000",
   compactionMode |-> "'safeguard'", hbEvery |-> NoEvery, hbModel |-> U,
   sessionTranscriptsEnabled |-> "true"]

QuietConfig ==
  [kind |-> "object", enableGraph |-> "false", enableGraphOther |-> U,
   autoUpdateEnabled |-> "false", defaults |-> QuietDefaults]

QuietLogs ==
  [kind |-> "object", errors |-> Str(<<>>), stderr |-> Str(<<>>), gatewayLog |-> Str(<<>>),
   errLogSizeMB |-> 1, sigtermCount |-> 0]

QuietWorkspace ==
  [kind |-> "object", hasSoul |-> "true", hasAgents |-> "true", memoryFiles |-> 3, mdFiles |-> 10]

QuietService ==
  [kind |-> "object", manager |-> "'systemd'", state |-> "'running'", exitCode |-> "'0'",
   runs |-> NoNum, uptimeSeconds |-> NoNum, nRestarts |-> NoNum]

Quiet ==
  [kind |-> "object", hostHash |-> "'9f2c1e'", system |-> QuietSystem,
   openclaw |-> QuietOpenclaw, config |-> QuietConfig, logs |-> QuietLogs,
   workspace |-> QuietWorkspace, service |-> QuietService]

\* a branch that is not there
Absent(branch) == [branch EXCEPT !.kind = "undefined"]

\* an installation on which many rules match
NoisyOpenclaw ==
  [kind |-> "object", version |-> U,
   gatewayStatus |-> Str(<<"duplicate plugin id detected", "state dir migration skipped">>),
   processExists |-> "false", portListening |-> "false", gatewayPid |-> U]

NoisyConfig ==
  [kind |-> "object", enableGraph |-> "true", enableGraphOther |-> U,
   autoUpdateEnabled |-> "true",
   defaults |-> [kind |-> "object", hybridEnabled |-> "false", contextPruning |-> U,
                 memoryFlushEnabled |-> U, reserveTokensFloor |-> U,
                 compactionMode |-> U,
                 hbEvery |-> [kind |-> "string", n |-> 5, unit |-> "m"],
                 hbModel |-> U, sessionTranscriptsEnabled |-> U]]

NoisyLogs ==
  [kind |-> "object",
   errors |-> Str(<<"18791", "eaddrinuse", "\n", "ggml_assert", "ggml-metal", "\n",
                    "orphan", "tool", "\n", "launchctl", "i/o error", "\n",
                    "signal sigterm received", "signal sigterm received">>),
   stderr |-> Str(<<>>),
   gatewayLog |-> Str(<<"config change detected", "evaluating reload",
                        "signal sigterm received">>),
   errLogSizeMB |-> 51, sigtermCount |-> 2]

NoisyWorkspace ==
  [kind |-> "object", hasSoul |-> "false", hasAgents |-> "false", memoryFiles |-> 0, mdFiles |-> 101]

NoisyService ==
  [kind |-> "object", manager |-> "'launchd'", state |-> "'sigterm'", exitCode |-> "'-15'",
   runs |-> 3, uptimeSeconds |-> 299, nRestarts |-> 1]

Noisy ==
  [kind |-> "object", hostHash |-> U, system |-> Absent(QuietSystem) ,
   openclaw |-> NoisyOpenclaw, config |-> NoisyConfig, logs |-> NoisyLogs,
   workspace |-> NoisyWorkspace, service |-> NoisyService]

\* the values a flag of the collector can take
Flags == {U, "true", "false", "'true'", "'false'"}

\* the words a gateway status is made of
StatusWords ==
  {"not", "running", "pid", "state", "active", "inactive", "listening", "warning"}

\* the notices a gateway status can carry
StatusNotices == {"duplicate plugin id detected", "state dir migration skipped"}

RECURSIVE SeqsUpTo(_, _)
\* the sequences over S of length at most n
SeqsUpTo(S, n) ==
  IF n = 0 THEN {<<>>}
  ELSE LET shorter == SeqsUpTo(S, n - 1)
       IN  shorter \cup {Append(s, w) : s \in shorter, w \in S}

StatusTexts == {Str(ws) : ws \in SeqsUpTo(StatusWords, MaxStatusLen)}

NoticeTexts == {Str(ws) : ws \in SeqsUpTo(StatusNotices, 2)}

NoticeBranches ==
  { [kind |-> "object", version |-> U, gatewayStatus |-> st,
     processExists |-> pe, portListening |-> "true", gatewayPid |-> "'4242'"] :
       st \in NoticeTexts, pe \in {"true", "false"} }

OpenclawBranches ==
  { [kind |-> "object", version |-> U, gatewayStatus |-> st,
     processExists |-> pe, portListening |-> pl, gatewayPid |-> pid] :
       st \in StatusTexts, pe \in Flags, pl \in Flags, pid \in {U, "'4242'"} }

Everys == {NoEvery, [kind |-> "string", n |-> 5, unit |-> "m"],
           [kind |-> "string", n |-> 30, unit |-> "m"],
           [kind |-> "string", n |-> 1, unit |-> "h"]}

DefaultsBranches ==
  { [kind |-> "object", hybridEnabled |-> hy, contextPruning |-> cp,
     memoryFlushEnabled |-> mf, reserveTokensFloor |-> rt, compactionMode |-> cm,
     hbEvery |-> ev, hbModel |-> hm, sessionTranscriptsEnabled |-> stx] :
       hy \in {U, "true", "false"}, cp \in {U, "{}"}, mf \in {U, "true"},
       rt \in {U, "20000"}, cm \in {U, "'safeguard'"}, ev \in Everys,
       hm \in {U, "'haiku'"}, stx \in {U, "true"} }

ConfigBranches ==
  { [kind |-> "object", enableGraph |-> eg, enableGraphOther |-> eo,
     autoUpdateEnabled |-> au, defaults |-> df] :
       eg \in {U, "true", "false"}, eo \in {U, "true"}, au \in {U, "true"},
       df \in {QuietDefaults, Absent(QuietDefaults)} }

\* log excerpts
LogTexts ==
  { NoText, NumText, Str(<<>>),
    Str(<<"eaddrinuse">>),
    Str(<<"browser", "control", "fail">>),
    Str(<<"ggml-metal", "ggml_assert">>),
    Str(<<"tool_call_id", "\n", "not found">>),
    Str(<<"esockettimedout", "esockettimedout", "esockettimedout">>),
    Str(<<"invalid handshake", "chrome-extension", "\n", "invalid handshake", "chrome-extension",
          "\n", "closed before connect", "chrome-extension", "\n", "invalid handshake",
          "chrome-extension", "\n", "invalid handshake", "chrome-extension">>),
    Str(<<"listening", "pid", "\n", "listening", "pid", "\n", "listening", "pid">>),
    Str(<<"config change detected", "evaluating reload", Filler, "signal sigterm received">>),
    Str(<<"service", "not found", "load">>) }

LogsBranches ==
  { [kind |-> "object", errors |-> er, stderr |-> se, gatewayLog |-> gl,
     errLogSizeMB |-> mb, sigtermCount |-> sc] :
       er \in LogTexts, se \in {NoText, NumText, Str(<<"ggml-metal", "assert">>)},
       gl \in {NoText, NumText, Str(<<"signal sigterm received", "signal sigterm received">>)},
       mb \in {NoNum, 0, 49, 50, 51}, sc \in {NoNum, 0, 1} }

WorkspaceBranches ==
  { [kind |-> "object", hasSoul |-> hs, hasAgents |-> ha, memoryFiles |-> mf, mdFiles |-> md] :
       hs \in {U, "true", "false"}, ha \in {U, "true", "false"},
       mf \in {NoNum, 0, 3}, md \in {NoNum, 100, 101} }

ServiceBranches ==
  { [kind |-> "object", manager |-> mg, state |-> st, exitCode |-> ec,
     runs |-> ru, uptimeSeconds |-> up, nRestarts |-> nr] :
       mg \in {U, "'launchd'", "'systemd'"},
       st \in {U, "'running'", "'sigterm'", "'crashed'"},
       ec \in {U, "'0'", "'-15'"},
       ru \in {NoNum, 2, 3}, up \in {NoNum, 299, 300}, nr \in {NoNum, 0, 1} }

\* the installations the other branches are taken from
Bases == {Quiet, Noisy}

\* every mix of healthy and noisy branches
Mixes ==
  { [kind |-> "object", hostHash |-> U, system |-> QuietSystem,
     openclaw |-> o, config |-> c, logs |-> l, workspace |-> w, service |-> s] :
       o \in {QuietOpenclaw, NoisyOpenclaw}, c \in {QuietConfig, NoisyConfig},
       l \in {QuietLogs, NoisyLogs}, w \in {QuietWorkspace, NoisyWorkspace},
       s \in {QuietService, NoisyService} }

\* what a branch can be when it is not an object
NotObject == {"undefined", "null", "scalar"}

----------------------------------------------------------------------------
(* State *)

VARIABLES
  apiKey,     \* AI_CONFIG.apiKey is set
  dbUrl,      \* DATABASE_URL is set: getPool() returns a pool
  fixes,      \* the Map of diagnose.js, oldest key first
  diagnoses,  \* table diagnoses: id -> row
  patterns,   \* table patterns: rule id -> row
  posts,      \* POST /diagnose requests waiting for analyzeWithAI
  writes,     \* storeDiagnosis calls waiting for the database
  gets,       \* the identifiers GET /fix/:fixId is waiting for getDiagnosis on
  now,        \* the clock
  nextId,     \* the next identifier nanoid returns
  resp,       \* the response the last step sent, NoResp when it sent none
  diag,       \* detection engine: the snapshot under test
  detected,   \* detection engine: what detectIssues returned
  composed,   \* detection engine: the result built from it
  dphase,     \* detection engine: "input", "detected" or "composed"
  answer,     \* composer: the analysis the script is composed with
  scripts,    \* composer: the scripts generateFixScript returned, in call order
  machine,    \* the machine a composed script is run on
  progress,   \* storeDiagnosis query by query: identifier -> queries answered
  feedbacks   \* the calls of storeFeedback, in the order they were made

storeVars == <<apiKey, dbUrl, fixes, diagnoses, patterns, posts, writes, gets, now, nextId, resp>>

detectVars == <<diag, detected, composed, dphase>>

composeVars == <<answer, scripts, machine>>

recordVars == <<progress, feedbacks>>

engineVars == <<detectVars, composeVars, recordVars>>

vars == <<apiKey, dbUrl, fixes, diagnoses, patterns, posts, writes, gets, now, nextId, resp,
          diag, detected, composed, dphase, answer, scripts, machine, progress, feedbacks>>

NoResp == [op |-> "none", status |-> 0, from |-> "", fixId |-> 0]

\* the requests POST /diagnose is sent, a body and a user agent: a zombie
\* gateway, a body without system, and no body
Zombie ==
  [Quiet EXCEPT !.openclaw.processExists = "true", !.openclaw.portListening = "false",
                !.openclaw.gatewayStatus = NoText, !.openclaw.gatewayPid = U]

Requests ==
  { [body |-> Zombie, ua |-> "'node'"],
    [body |-> [Quiet EXCEPT !.system = Absent(QuietSystem)], ua |-> U],
    [body |-> [Quiet EXCEPT !.kind = "null"], ua |-> U] }

\* the empty text: data.choices?.[0]?.message?.content || ''
NoResponse == [summary |-> "''", optimization |-> "''", fix |-> "''", head |-> "''"]

\* the outcomes of callAI: it returns the text of the answer, it returns ''
\* for an answer without content, or it throws (fetch rejects, the status
\* is not ok, the body is not JSON)
AiCalls == {[ok |-> TRUE, response |-> r] : r \in AiResponses \cup {NoResponse}}
           \cup {[ok |-> FALSE, response |-> NoResponse]}

RemoveAt(s, i) == SubSeq(s, 1, i - 1) \o SubSeq(s, i + 1, Len(s))

StoreInit ==
  /\ apiKey \in BOOLEAN
  /\ dbUrl \in BOOLEAN
  /\ fixes = <<>>
  /\ diagnoses = <<>>
  /\ patterns = <<>>
  /\ posts = <<>>
  /\ writes = {}
  /\ gets = {}
  /\ now = 0
  /\ nextId = 1
  /\ resp = NoResp

DetectIdle ==
  /\ diag = Quiet
  /\ detected = [threw |-> FALSE, items |-> <<>>]
  /\ composed = <<>>
  /\ dphase = "off"

\* a machine no script has run on: the settings jq has assigned in
\* openclaw.json, the lines appended to ~/.zshrc, the length of
\* gateway.err.log, the files written, the backup copies made of
\* openclaw.json, what `openclaw gateway restart` and the LaunchAgent plist
\* test answer, the number of runs, and of the last run: the remediation
\* blocks bash entered, whether it came to the restart of the gateway and
\* whether it came to the feedback call
Machine(logLines, restartWorks, plistExists) ==
  [config |-> {}, zshrc |-> 0, errLog |-> logLines, files |-> {}, copies |-> 0,
   restartWorks |-> restartWorks, plistExists |-> plistExists, runs |-> 0,
   ran |-> <<>>, restarted |-> FALSE, reported |-> FALSE]

ComposeIdle ==
  /\ answer = Fallback(0, "no API key configured")
  /\ scripts = <<>>
  /\ machine = Machine(0, TRUE, TRUE)

RecordIdle ==
  /\ progress = <<>>
  /\ feedbacks = <<>>

Init == StoreInit /\ DetectIdle /\ ComposeIdle /\ RecordIdle

----------------------------------------------------------------------------
(* POST /diagnose *)

\* storeDiagnosis(result, source) up to its first await: without a pool it
\* returns, with a pool the INSERT is on its way
storeDiagnosis(ws, hasPool, result, source) ==
  IF hasPool
  THEN ws \cup {[id |-> result.fixId, result |-> result, source |-> source]}
  ELSE ws

\* lines 69-113 of the handler: everything after analyzeWithAI has returned
Finish(req, knownIssues, aiAnalysis) ==
  LET fixId == nextId
      result == Result(req.body, knownIssues, aiAnalysis, fixId, now)
      source == IF req.ua = "'node'" THEN "'npx'" ELSE "'curl'"
  IN  /\ nextId' = nextId + 1
      /\ fixes' = Evict(MapSet(fixes, fixId, result))
      /\ writes' = storeDiagnosis(writes, dbUrl, result, source)
      /\ resp' = [op |-> "diagnose", status |-> 200, from |-> "pipeline", fixId |-> fixId,
                  body |-> ToJson(StripInternal(result))]

Fail500 ==
  /\ resp' = [op |-> "diagnose", status |-> 500, from |-> "pipeline", fixId |-> 0,
              error |-> "'Diagnosis failed'",
              hint |-> "'If this persists, report at https://github.com/arcabotai/clawfix/issues'"]
  /\ UNCHANGED <<fixes, writes, nextId>>

\* a faulty variant: a body without system is not turned away
PostDiagnose_NoValidation(req) ==
  /\ nextId + Len(posts) <= MaxFixes
  /\ IF req.body.kind = "null"
     THEN /\ resp' = [op |-> "diagnose", status |-> 400, from |-> "pipeline", fixId |-> 0,
                      error |-> "'Invalid diagnostic payload'",
                      hint |-> "'Run the diagnostic script: curl -sSL clawfix.dev/fix | bash'"]
          /\ UNCHANGED <<fixes, writes, nextId, posts>>
     ELSE LET found == detectIssues(req.body)
          IN  IF found.threw THEN Fail500 /\ UNCHANGED posts
              ELSE IF ~apiKey
              THEN /\ Finish(req, found.items, analyzeWithAI(FALSE, found.items, <<>>))
                   /\ UNCHANGED posts
              ELSE /\ Len(posts) < MaxPosts
                   /\ posts' = Append(posts, [req |-> req, knownIssues |-> found.items])
                   /\ resp' = NoResp
                   /\ UNCHANGED <<fixes, writes, nextId>>
  /\ UNCHANGED <<apiKey, dbUrl, diagnoses, patterns, gets, now>>
  /\ UNCHANGED engineVars

\* the handler up to the await of analyzeWithAI
PostDiagnose(req) ==
  /\ nextId + Len(posts) <= MaxFixes
  /\ IF req.body.kind = "null" \/ req.body.system.kind \in {"undefined", "null"}
     THEN /\ resp' = [op |-> "diagnose", status |-> 400, from |-> "pipeline", fixId |-> 0,
                      error |-> "'Invalid diagnostic payload'",
                      hint |-> "'Run the diagnostic script: curl -sSL clawfix.dev/fix | bash'"]
          /\ UNCHANGED <<fixes, writes, nextId, posts>>
     ELSE LET found == detectIssues(req.body)
          IN  IF found.threw THEN Fail500 /\ UNCHANGED posts
              ELSE IF ~apiKey
              THEN /\ Finish(req, found.items, analyzeWithAI(FALSE, found.items, <<>>))
                   /\ UNCHANGED posts
              ELSE /\ Len(posts) < MaxPosts
                   /\ posts' = Append(posts, [req |-> req, knownIssues |-> found.items])
                   /\ resp' = NoResp
                   /\ UNCHANGED <<fixes, writes, nextId>>
  /\ UNCHANGED <<apiKey, dbUrl, diagnoses, patterns, gets, now>>
  /\ UNCHANGED engineVars

\* callAI returns or throws, and the handler runs to its end
AiReturns(i, call) ==
  /\ i \in 1..Len(posts)
  /\ Finish(posts[i].req, posts[i].knownIssues,
            analyzeWithAI(TRUE, posts[i].knownIssues, call))
  /\ posts' = RemoveAt(posts, i)
  /\ UNCHANGED <<apiKey, dbUrl, diagnoses, patterns, gets, now>>
  /\ UNCHANGED engineVars

----------------------------------------------------------------------------
(* storeDiagnosis after its first await *)

RECURSIVE UpsertAll(_, _, _)
\* the first n rounds of the loop over result.knownIssues
UpsertAll(pats, issues, n) ==
  IF n = 0 THEN pats
  ELSE UpsertPattern(UpsertAll(pats, issues, n - 1), issues[n])

InsertRow(rows, w, ts) ==
  [id \in DOMAIN rows \cup {w.id} |->
     IF id = w.id THEN Row(w.result, w.source, ts) ELSE rows[id]]

\* the INSERT INTO diagnoses and every upsert into patterns succeed
DbWrite(w) ==
  /\ w \in writes
  /\ diagnoses' = InsertRow(diagnoses, w, now)
  /\ patterns' = UpsertAll(patterns, w.result.knownIssues, Len(w.result.knownIssues))
  /\ writes' = writes \ {w}
  /\ resp' = NoResp
  /\ UNCHANGED <<apiKey, dbUrl, fixes, posts, gets, now, nextId>>
  /\ UNCHANGED engineVars

\* a faulty variant: the failure reaches the handler, which answers 500
DbWriteFails_Propagates(w, k) ==
  /\ w \in writes
  /\ k \in 0..Len(w.result.knownIssues)
  /\ writes' = writes \ {w}
  /\ resp' = [op |-> "diagnose", status |-> 500, from |-> "pipeline", fixId |-> 0,
              error |-> "'Diagnosis failed'"]
  /\ UNCHANGED <<apiKey, dbUrl, fixes, diagnoses, patterns, posts, gets, now, nextId>>
  /\ UNCHANGED engineVars

\* a query of storeDiagnosis fails after k of them succeeded: the catch
\* logs and the call ends
DbWriteFails(w, k) ==
  /\ w \in writes
  /\ k \in 0..Len(w.result.knownIssues)
  /\ diagnoses' = IF k = 0 THEN diagnoses ELSE InsertRow(diagnoses, w, now)
  /\ patterns' = IF k = 0 THEN patterns ELSE UpsertAll(patterns, w.result.knownIssues, k - 1)
  /\ writes' = writes \ {w}
  /\ resp' = NoResp
  /\ UNCHANGED <<apiKey, dbUrl, fixes, posts, gets, now, nextId>>
  /\ UNCHANGED engineVars

----------------------------------------------------------------------------
(* GET /fix/:fixId *)

NotFound(id) == [op |-> "fix", status |-> 404, from |-> "", fixId |-> id,
                 error |-> "'Fix not found or expired'"]

\* a faulty variant: the JSON is sent with its internal keys
Send_Unstripped(id, fix, asScript, from) ==
  IF asScript
  THEN [op |-> "fix", status |-> 200, from |-> from, fixId |-> id, text |-> fix.fixScript]
  ELSE [op |-> "fix", status |-> 200, from |-> from, fixId |-> id, body |-> ToJson(fix)]

\* lines 141-150: the script as plain text, or the JSON without the
\* internal keys
Send(id, fix, asScript, from) ==
  IF asScript
  THEN [op |-> "fix", status |-> 200, from |-> from, fixId |-> id, text |-> fix.fixScript]
  ELSE [op |-> "fix", status |-> 200, from |-> from, fixId |-> id,
        body |-> ToJson(StripInternal(fix))]

\* the handler up to the await of getDiagnosis
GetFix(id, asScript) ==
  /\ IF MapHas(fixes, id)
     THEN /\ resp' = Send(id, MapGet(fixes, id), asScript, "cache")
          /\ UNCHANGED gets
     ELSE IF ~dbUrl
     THEN /\ resp' = NotFound(id)
          /\ UNCHANGED gets
     ELSE /\ id \in gets \/ Cardinality(gets) < MaxGets
          /\ gets' = gets \cup {id}
          /\ resp' = NoResp
  /\ UNCHANGED <<apiKey, dbUrl, fixes, diagnoses, patterns, posts, writes, now, nextId>>
  /\ UNCHANGED engineVars

\* getDiagnosis(fixId) once the database has answered: the object built
\* from the row, or null when there is no row or the query failed
getDiagnosis(rows, pats, fixId, queryOk) ==
  IF queryOk /\ fixId \in DOMAIN rows
  THEN [found |-> TRUE, fix |-> FromRow(rows[fixId], pats)]
  ELSE [found |-> FALSE, fix |-> <<>>]

\* a faulty variant: the object read from the database is not put into the
\* cache
GetResume_NoRecache(id, queryOk, asScript) ==
  /\ id \in gets
  /\ LET got == getDiagnosis(diagnoses, patterns, id, queryOk)
     IN  IF got.found
         THEN resp' = Send(id, got.fix, asScript, "db")
         ELSE resp' = NotFound(id)
  /\ gets' = gets \ {id}
  /\ UNCHANGED <<apiKey, dbUrl, fixes, diagnoses, patterns, posts, writes, now, nextId>>
  /\ UNCHANGED engineVars

\* lines 130-150: the database answers SELECT * FROM diagnoses WHERE id = $1
\* (or the query fails) and the handler runs to its end
GetResume(id, queryOk, asScript) ==
  /\ id \in gets
  /\ LET got == getDiagnosis(diagnoses, patterns, id, queryOk)
     IN  IF got.found
         THEN /\ fixes' = MapSet(fixes, id, got.fix)
              /\ resp' = Send(id, got.fix, asScript, "db")
         ELSE /\ resp' = NotFound(id)
              /\ UNCHANGED fixes
  /\ gets' = gets \ {id}
  /\ UNCHANGED <<apiKey, dbUrl, diagnoses, patterns, posts, writes, now, nextId>>
  /\ UNCHANGED engineVars

\* time passes
Tick ==
  /\ now < MaxTime
  /\ now' = now + 1
  /\ resp' = NoResp
  /\ UNCHANGED <<apiKey, dbUrl, fixes, diagnoses, patterns, posts, writes, gets, nextId>>
  /\ UNCHANGED engineVars

\* the server without an AI key
Next ==
  \/ \E req \in Requests : PostDiagnose(req)
  \/ \E w \in writes : DbWrite(w)
  \/ \E w \in writes : \E k \in 0..Len(w.result.knownIssues) : DbWriteFails(w, k)
  \/ \E id \in 1..MaxFixes, asScript \in BOOLEAN : GetFix(id, asScript)
  \/ \E id \in gets, queryOk \in BOOLEAN, asScript \in BOOLEAN : GetResume(id, queryOk, asScript)

NoKeyInit == Init /\ apiKey = FALSE

Spec == NoKeyInit /\ [][Next]_vars

\* the server with an AI key and without a database
AugmentNext ==
  \/ \E req \in Requests : PostDiagnose(req)
  \/ \E i \in 1..MaxPosts, call \in AiCalls : AiReturns(i, call)
  \/ \E id \in 1..MaxFixes, asScript \in BOOLEAN : GetFix(id, asScript)

AugmentInit == Init /\ apiKey = TRUE /\ dbUrl = FALSE

AugmentSpec == AugmentInit /\ [][AugmentNext]_vars

\* the server without an AI key, with a clock that moves
TimedNext == Next \/ Tick

TimedSpec == NoKeyInit /\ [][TimedNext]_vars

\* the server with an AI key while time passes.  Every step of AugmentNext
\* is started from outside, by a client or by the answer of the external
\* model; fetch is called without a signal and no timer is set, so the
\* clock is all that moves on its own
PatientNext == AugmentNext \/ Tick

PatientSpec == AugmentInit /\ [][PatientNext]_vars /\ WF_vars(Tick)

----------------------------------------------------------------------------
(* The detection engine and the composer on their own: a snapshot is       *)
(* drawn, detectIssues runs on it, and the result is built from the issues *)

DetectInit ==
  /\ StoreInit /\ apiKey = FALSE /\ dbUrl = FALSE
  /\ \/ \E b \in Bases, x \in OpenclawBranches : diag = [b EXCEPT !.openclaw = x]
     \/ \E b \in Bases, x \in NoticeBranches : diag = [b EXCEPT !.openclaw = x]
     \/ \E b \in Bases, x \in ConfigBranches : diag = [b EXCEPT !.config = x]
     \/ \E b \in Bases, x \in DefaultsBranches : diag = [b EXCEPT !.config.defaults = x]
     \/ \E b \in Bases, x \in LogsBranches : diag = [b EXCEPT !.logs = x]
     \/ \E b \in Bases, x \in WorkspaceBranches : diag = [b EXCEPT !.workspace = x]
     \/ \E b \in Bases, x \in ServiceBranches : diag = [b EXCEPT !.service = x]
     \/ \E b \in Bases, k \in NotObject :
           \/ diag = [b EXCEPT !.openclaw.kind = k]
           \/ diag = [b EXCEPT !.config.kind = k]
           \/ diag = [b EXCEPT !.logs.kind = k]
           \/ diag = [b EXCEPT !.workspace.kind = k]
           \/ diag = [b EXCEPT !.service.kind = k]
           \/ diag = [b EXCEPT !.openclaw.gatewayStatus = NoText]
           \/ diag = [b EXCEPT !.kind = "null"]
     \/ \E k \in NotObject :
           diag = [Quiet EXCEPT !.openclaw.kind = k, !.config.kind = k, !.logs.kind = k,
                                !.workspace.kind = k, !.service.kind = k]
     \/ diag \in Mixes
  /\ detected = [threw |-> FALSE, items |-> <<>>]
  /\ composed = <<>>
  /\ dphase = "input"
  /\ ComposeIdle
  /\ RecordIdle

RunDetect ==
  /\ dphase = "input"
  /\ detected' = detectIssues(diag)
  /\ dphase' = "detected"
  /\ UNCHANGED <<diag, composed>>
  /\ UNCHANGED composeVars
  /\ UNCHANGED recordVars
  /\ UNCHANGED storeVars

RunCompose ==
  /\ dphase = "detected" /\ ~detected.threw
  /\ composed' = <<Result(diag, detected.items,
                          analyzeWithAI(FALSE, detected.items, <<>>), 1, 0)>>
  /\ dphase' = "composed"
  /\ UNCHANGED <<diag, detected>>
  /\ UNCHANGED composeVars
  /\ UNCHANGED recordVars
  /\ UNCHANGED storeVars

DetectNext == RunDetect \/ RunCompose

DetectSpec == DetectInit /\ [][DetectNext]_vars

----------------------------------------------------------------------------
(* The composer on its own, and the shell that runs what it composed       *)

MaxScripts == 2
MaxRuns == 2

NoEffect == [sets |-> {}, appends |-> 0, writes |-> {}, keeps |-> 0]

\* what running the remediation template of a rule changes on the machine:
\* the settings it assigns in openclaw.json with jq, the lines it appends
\* to ~/.zshrc with >>, the files it writes with >, and the number of lines
\* of gateway.err.log its tail keeps (0 when it does not trim)
TemplateEffect(id) ==
  CASE id = "mem0-graph-free" ->
         [NoEffect EXCEPT !.sets = {"plugins.entries.openclaw-mem0.config.enableGraph = false"}]
    [] id = "no-hybrid-search" ->
         [NoEffect EXCEPT !.sets = {"agents.defaults.memorySearch.query.hybrid = {enabled}"}]
    [] id = "no-context-pruning" ->
         [NoEffect EXCEPT !.sets = {"agents.defaults.contextPruning = {cache-ttl}"}]
    [] id = "no-memory-flush" ->
         [NoEffect EXCEPT !.sets = {"agents.defaults.compaction = {safeguard, memoryFlush}"}]
    [] id = "no-soul" -> [NoEffect EXCEPT !.writes = {"SOUL.md"}]
    [] id = "no-memory-files" -> [NoEffect EXCEPT !.writes = {"memory/", "MEMORY.md"}]
    [] id = "ggml-metal-crash" ->
         [NoEffect EXCEPT !.sets = {"env.GGML_NO_METAL = 1"}, !.appends = 1]
    [] id = "no-compaction-config" ->
         [NoEffect EXCEPT !.sets = {"agents.defaults.compaction.mode = safeguard",
                                    "agents.defaults.compaction.reserveTokensFloor = 32000"}]
    [] id = "missing-agents-md" -> [NoEffect EXCEPT !.writes = {"AGENTS.md"}]
    [] id = "heartbeat-no-model-override" ->
         [NoEffect EXCEPT !.sets = {"agents.defaults.heartbeat.model = sonnet"}]
    [] id = "session-transcript-not-indexed" ->
         [NoEffect EXCEPT !.sets = {"agents.defaults.memorySearch.sessionTranscripts.enabled = true"}]
    [] id = "high-token-usage" ->
         [NoEffect EXCEPT !.sets = {"agents.defaults.heartbeat.every = 30m",
                                    "agents.defaults.heartbeat.model = sonnet"}]
    [] id \in {"auto-update-restart-loop", "auto-update-enabled-warning",
               "config-reload-sigterm-cascade"} ->
         [NoEffect EXCEPT !.sets = {"update.auto.enabled = false"}]
    [] id = "browser-relay-handshake-spam" -> [NoEffect EXCEPT !.keeps = 1000]
    [] id = "oversized-error-log" -> [NoEffect EXCEPT !.keeps = 5000]
    [] id = "gateway-watchdog-missing" ->
         [NoEffect EXCEPT !.writes = {"scripts/", "gateway-watchdog.sh",
                                      "ai.openclaw.gateway-watchdog.plist"}]
    [] OTHER -> NoEffect

\* the template of a rule leaves the script at its exit statement:
\* gateway-not-running after a restart that worked (exit 0),
\* launchd-corrupted-state without a LaunchAgent plist (exit 1)
Exits(id, m) ==
  /\ KNOWN_ISSUES[RuleIndex(id)].fix.exits
  /\ \/ id = "gateway-not-running" /\ m.restartWorks
     \/ id = "launchd-corrupted-state" /\ ~m.plistExists

\* the line that copies openclaw.json to a backup named after the second
BackupCopy == "  cp ~/.openclaw/openclaw.json ~/.openclaw/openclaw.json.bak.$(date +%s)"

\* the line of the restart block that restarts the gateway
RestartCommand == "openclaw gateway restart 2>/dev/null || echo Could not restart"

\* the first line of the feedback call at the end of a script
FeedbackCall == "curl -s -X POST https://clawfix.dev/api/feedback/"

\* one line of a script run by bash
RunLine(l, m) ==
  IF l.k = BackupCopy
  THEN [m EXCEPT !.copies = @ + 1]
  ELSE IF l.k = RestartCommand
  THEN [m EXCEPT !.restarted = TRUE]
  ELSE IF l.k = FeedbackCall
  THEN [m EXCEPT !.reported = TRUE]
  ELSE IF l.k = "fix"
  THEN LET e == TemplateEffect(l.of)
       IN  [m EXCEPT !.ran = Append(@, l.of),
                     !.config = @ \cup e.sets,
                     !.zshrc = @ + e.appends,
                     !.files = @ \cup e.writes,
                     !.errLog = IF e.keeps > 0 /\ @ > e.keeps THEN e.keeps ELSE @,
                     !.copies = IF KNOWN_ISSUES[RuleIndex(l.of)].fix.copiesConfig
                                THEN @ + 1 ELSE @]
  ELSE m

RECURSIVE RunFrom(_, _, _)
\* bash from line i of the script on
RunFrom(script, i, m) ==
  IF i > Len(script) THEN m
  ELSE IF script[i].k = "fix" /\ Exits(script[i].of, m)
  THEN [m EXCEPT !.ran = Append(@, script[i].of)]
  ELSE RunFrom(script, i + 1, RunLine(script[i], m))

\* bash fix.sh: the lines that are comments, echo and the test of the
\* backup change nothing on the machine
Bash(script, m) ==
  LET acting == SelectSeq(script, LAMBDA l : l.k \in {"fix", BackupCopy,
                                                       RestartCommand, FeedbackCall})
      fresh == [m EXCEPT !.ran = <<>>, !.restarted = FALSE, !.reported = FALSE]
  IN  [RunFrom(acting, 1, fresh) EXCEPT !.runs = @ + 1]

\* the installations a script is composed for
ComposeSnapshots == Mixes \cup {[Quiet EXCEPT !.logs.errLogSizeMB = 51]}

ComposeInit ==
  /\ StoreInit /\ apiKey = FALSE /\ dbUrl = FALSE
  /\ diag \in ComposeSnapshots
  /\ detected = detectIssues(diag)
  /\ composed = <<>>
  /\ dphase = "detected"
  /\ \/ answer = analyzeWithAI(FALSE, detected.items, <<>>)
     \/ \E call \in AiCalls : answer = analyzeWithAI(TRUE, detected.items, call)
  /\ scripts = <<>>
  /\ \E restartWorks \in BOOLEAN, plistExists \in BOOLEAN :
        machine = Machine(6000, restartWorks, plistExists)
  /\ RecordIdle

\* generateFixScript(knownIssues, aiAnalysis, fixId) is called once more
\* with the same arguments
Compose ==
  /\ Len(scripts) < MaxScripts
  /\ scripts' = Append(scripts, generateFixScript(detected.items, answer, 1, now))
  /\ UNCHANGED <<answer, machine>>
  /\ UNCHANGED detectVars
  /\ UNCHANGED recordVars
  /\ UNCHANGED storeVars

\* the user runs the first script
Execute ==
  /\ scripts # <<>>
  /\ machine.runs < MaxRuns
  /\ machine' = Bash(scripts[1], machine)
  /\ UNCHANGED <<answer, scripts>>
  /\ UNCHANGED detectVars
  /\ UNCHANGED recordVars
  /\ UNCHANGED storeVars

ComposeNext == Compose \/ Execute \/ Tick

ComposeSpec == ComposeInit /\ [][ComposeNext]_vars

----------------------------------------------------------------------------
(* storeDiagnosis and storeFeedback query by query: between two awaited    *)
(* queries of one call the queries of other calls can run                  *)

MaxCalls == 3

\* the requests whose detections are recorded: an installation with two
\* issues and a healthy one
ZombieAuto == [Zombie EXCEPT !.config.autoUpdateEnabled = "true"]

RecordRequests ==
  { [body |-> ZombieAuto, ua |-> "'node'"],
    [body |-> Quiet, ua |-> U] }

\* the queries of the storeDiagnosis call for an identifier that were answered
Progress(id) == IF id \in DOMAIN progress THEN progress[id] ELSE 0

\* the next query of storeDiagnosis is answered: the INSERT INTO diagnoses
\* first, then one upsert into patterns for each known issue
QueryStep(w) ==
  /\ w \in writes
  /\ LET q == Progress(w.id) + 1
         issues == w.result.knownIssues
     IN  /\ IF q = 1
            THEN /\ diagnoses' = InsertRow(diagnoses, w, now)
                 /\ UNCHANGED patterns
            ELSE /\ patterns' = UpsertPattern(patterns, issues[q - 1])
                 /\ UNCHANGED diagnoses
         /\ progress' = [id \in DOMAIN progress \cup {w.id} |->
                           IF id = w.id THEN q ELSE progress[id]]
         /\ writes' = IF q = Len(issues) + 1 THEN writes \ {w} ELSE writes
  /\ resp' = NoResp
  /\ UNCHANGED <<apiKey, dbUrl, fixes, posts, gets, now, nextId>>
  /\ UNCHANGED <<detectVars, composeVars, feedbacks>>

\* the next query of storeDiagnosis fails: the catch logs and the call ends
QueryFails(w) ==
  /\ w \in writes
  /\ writes' = writes \ {w}
  /\ resp' = NoResp
  /\ UNCHANGED <<apiKey, dbUrl, fixes, diagnoses, patterns, posts, gets, now, nextId>>
  /\ UNCHANGED engineVars

\* res.json({ received: true, fixId, success })
Ack(fixId, success) ==
  [op |-> "feedback", status |-> 200, from |-> "pipeline", fixId |-> fixId,
   body |-> [received |-> TRUE, fixId |-> fixId, success |-> success]]

\* POST /feedback/:fixId up to the first await of storeFeedback: without a
\* pool storeFeedback returns and the handler answers.  The identifier is
\* one that POST /diagnose has given out; its row is missing from
\* diagnoses while the INSERT is on its way and when the INSERT failed
PostFeedback(fixId, success) ==
  /\ (nextId - 1) + Len(feedbacks) < MaxCalls
  /\ IF dbUrl
     THEN /\ feedbacks' = Append(feedbacks, [fixId |-> fixId, success |-> success, at |-> 0,
                                             row |-> 0, attached |-> <<>>, state |-> "run"])
          /\ resp' = NoResp
     ELSE /\ resp' = Ack(fixId, success)
          /\ UNCHANGED feedbacks
  /\ UNCHANGED <<apiKey, dbUrl, fixes, diagnoses, patterns, posts, writes, gets, now, nextId>>
  /\ UNCHANGED <<detectVars, composeVars, progress>>

\* a faulty variant: the rate is computed from the old times_fixed
UpdateFixed_OldRate(pats, id) ==
  IF id \in DOMAIN pats
  THEN [pats EXCEPT ![id].times_fixed = @ + 1,
                    ![id].success_rate =
                       [null |-> FALSE, num |-> pats[id].times_fixed,
                        den |-> IF pats[id].times_detected > 1
                                THEN pats[id].times_detected ELSE 1]]
  ELSE pats

\* UPDATE patterns SET times_fixed = times_fixed + 1,
\*   success_rate = (times_fixed + 1)::REAL / GREATEST(times_detected, 1)
\* WHERE id = $1
UpdateFixed(pats, id) ==
  IF id \in DOMAIN pats
  THEN [pats EXCEPT ![id].times_fixed = @ + 1,
                    ![id].success_rate =
                       [null |-> FALSE, num |-> pats[id].times_fixed + 1,
                        den |-> IF pats[id].times_detected > 1
                                THEN pats[id].times_detected ELSE 1]]
  ELSE pats

\* the call of storeFeedback ends and the handler answers
EndFeedback(j, call, state) ==
  /\ feedbacks' = [feedbacks EXCEPT ![j] = [call EXCEPT !.state = state]]
  /\ resp' = Ack(call.fixId, call.success)

\* a faulty variant: a failed query is answered with an error
FeedbackFails_Reported(j) ==
  /\ j \in 1..Len(feedbacks)
  /\ feedbacks[j].state = "run"
  /\ feedbacks' = [feedbacks EXCEPT ![j].state = "failed"]
  /\ resp' = [op |-> "feedback", status |-> 500, from |-> "pipeline",
              fixId |-> feedbacks[j].fixId,
              body |-> [received |-> FALSE, fixId |-> feedbacks[j].fixId,
                        success |-> feedbacks[j].success]]
  /\ UNCHANGED <<apiKey, dbUrl, fixes, diagnoses, patterns, posts, writes, gets, now, nextId>>
  /\ UNCHANGED <<detectVars, composeVars, progress>>

\* the next query of storeFeedback fails: the catch logs, the call ends and
\* the handler answers
FeedbackFails(j) ==
  /\ j \in 1..Len(feedbacks)
  /\ feedbacks[j].state = "run"
  /\ EndFeedback(j, feedbacks[j], "failed")
  /\ UNCHANGED <<apiKey, dbUrl, fixes, diagnoses, patterns, posts, writes, gets, now, nextId>>
  /\ UNCHANGED <<detectVars, composeVars, progress>>

\* the rows of table feedback: the id (SERIAL) each call's INSERT was given
FeedbackRows == {k \in 1..Len(feedbacks) : feedbacks[k].row > 0}

\* the next query of storeFeedback is answered: INSERT INTO feedback (its
\* fix_id REFERENCES diagnoses(id); the row gets the next id), UPDATE
\* diagnoses SET outcome, and on success SELECT issues_pattern and one
\* UPDATE patterns for each of them
FeedbackStep(j) ==
  /\ j \in 1..Len(feedbacks)
  /\ feedbacks[j].state = "run"
  /\ LET call == feedbacks[j]
         q == call.at + 1
         next == [call EXCEPT !.at = q]
         known == call.fixId \in DOMAIN diagnoses
     IN  CASE q = 1 ->
                /\ IF known
                   THEN /\ feedbacks' = [feedbacks EXCEPT ![j] =
                                           [next EXCEPT !.row = Cardinality(FeedbackRows) + 1]]
                        /\ resp' = NoResp
                   ELSE EndFeedback(j, call, "failed")
                /\ UNCHANGED <<diagnoses, patterns>>
           [] q = 2 ->
                /\ diagnoses' = IF known
                                THEN [diagnoses EXCEPT ![call.fixId].outcome =
                                        IF call.success THEN "'success'" ELSE "'failed'"]
                                ELSE diagnoses
                /\ IF call.success
                   THEN feedbacks' = [feedbacks EXCEPT ![j] = next] /\ resp' = NoResp
                   ELSE EndFeedback(j, next, "done")
                /\ UNCHANGED patterns
           [] q = 3 ->
                LET found == IF known THEN diagnoses[call.fixId].issues_pattern ELSE <<>>
                    read == [next EXCEPT !.attached = found]
                IN  /\ IF Len(found) > 0
                       THEN feedbacks' = [feedbacks EXCEPT ![j] = read] /\ resp' = NoResp
                       ELSE EndFeedback(j, read, "done")
                    /\ UNCHANGED <<diagnoses, patterns>>
           [] OTHER ->
                /\ patterns' = UpdateFixed(patterns, call.attached[q - 3])
                /\ IF q - 3 < Len(call.attached)
                   THEN feedbacks' = [feedbacks EXCEPT ![j] = next] /\ resp' = NoResp
                   ELSE EndFeedback(j, next, "done")
                /\ UNCHANGED diagnoses
  /\ UNCHANGED <<apiKey, dbUrl, fixes, posts, writes, gets, now, nextId>>
  /\ UNCHANGED <<detectVars, composeVars, progress>>

RecordNext ==
  \/ \E req \in RecordRequests :
        (nextId - 1) + Len(feedbacks) < MaxCalls /\ PostDiagnose(req)
  \/ \E w \in writes : QueryStep(w)
  \/ \E w \in writes : QueryFails(w)
  \/ \E fixId \in 1..(nextId - 1), success \in BOOLEAN : PostFeedback(fixId, success)
  \/ \E j \in 1..MaxCalls : FeedbackStep(j)
  \/ \E j \in 1..MaxCalls : FeedbackFails(j)

RecordSpec == NoKeyInit /\ [][RecordNext]_vars

----------------------------------------------------------------------------
(* Properties of the result store *)

\* the provenance a response body shows: the internal keys of the result,
\* and the members of systemInfo that are not null
ProvenanceKeys == {"_hostHash", "_os", "_arch", "_nodeVersion", "_openclawVersion"}

Provenance(body) ==
  (ProvenanceKeys \cap DOMAIN body)
    \cup IF "systemInfo" \in DOMAIN body
         THEN {k \in {"os", "nodeVersion", "openclawVersion"} : body.systemInfo[k] # "null"}
         ELSE {}

\* the step is a POST /diagnose that stored a result
PutStep == nextId' = nextId + 1

\* the step is a GET /fix/:fixId answered without a query of the database
DirectGetStep == resp'.op = "fix" /\ gets' = gets

\* C1: no response body sent by POST /diagnose or GET /fix/:fixId, whether
\* the result comes from the cache or from the database, shows the host
\* fingerprint, the operating system, the architecture, the node version or
\* the openclaw version of the reporting host.
C1_NoProvenance == "body" \in DOMAIN resp => Provenance(resp.body) = {}

\* C2: the cache never holds more entries than its capacity, whatever
\* POST /diagnose and GET /fix/:fixId requests were served, the ones that
\* read the database and put the result back into the cache included.
C2_CacheBounded == Len(fixes) <= CacheCapacity

\* C3: eviction is first in, first out.  A put appends its key and, when
\* the cache overflows, removes the oldest key; the put that follows
\* CacheCapacity puts leaves exactly the keys 2..CacheCapacity+1 in the
\* cache, the first key being the one that is gone, whatever reads of the
\* first key hit the cache before.
C3_StrictFifo ==
  [][PutStep =>
       /\ MapKeys(fixes') = (IF Len(fixes) >= CacheCapacity
                             THEN Tail(MapKeys(fixes)) ELSE MapKeys(fixes)) \o <<nextId>>
       /\ nextId = CacheCapacity + 1 =>
            MapKeys(fixes') = [i \in 1..CacheCapacity |-> i + 1]]_vars

\* the cache is full of the first CacheCapacity results, the first one was
\* just read from it, and the next put is still to come
C3_ReadBeforeOverflow ==
  /\ nextId = CacheCapacity + 1
  /\ resp.op = "fix" /\ resp.fixId = 1 /\ resp.from = "cache"

\* the put after CacheCapacity puts has happened
C3_Overflowed ==
  /\ nextId = CacheCapacity + 2
  /\ resp.op = "diagnose" /\ resp.status = 200
  /\ ~MapHas(fixes, 1)

\* C4: a GET /fix/:fixId that follows the POST /diagnose which stored the
\* result answers 200 with the JSON the diagnose response carried, which is
\* the stored result without its internal keys and nothing else removed.
C4_RoundTrip ==
  [][(/\ resp.op = "diagnose" /\ resp.status = 200
      /\ DirectGetStep /\ resp'.fixId = resp.fixId)
       => /\ resp'.status = 200
          /\ MapHas(fixes, resp.fixId)
          /\ "body" \in DOMAIN resp' =>
               /\ resp'.body = resp.body
               /\ DOMAIN resp'.body = DOMAIN MapGet(fixes, resp.fixId) \ InternalKeys
               /\ \A f \in DOMAIN resp'.body : resp'.body[f] = MapGet(fixes, resp.fixId)[f]
          /\ "text" \in DOMAIN resp' => resp'.text = resp.body.fixScript]_vars

\* a result was stored and then read back as JSON
C4_ReadBack ==
  /\ resp.op = "fix" /\ resp.status = 200 /\ resp.from = "cache"
  /\ "body" \in DOMAIN resp
  /\ resp.fixId = nextId - 1

\* C5: GET /fix/:fixId reads the cache first and queries the database only
\* on a miss, and only when there is a database.  A row the database
\* returns is put into the cache in the step that sends the response, so a
\* later get of the identifier is answered from the cache.  Without a row,
\* without a database or when the query fails the answer is 404 and the
\* cache is left as it was.
C5_GetOrder ==
  [][/\ \A id \in gets' \ gets : dbUrl /\ ~MapHas(fixes, id)
     /\ DirectGetStep =>
          IF MapHas(fixes, resp'.fixId)
          THEN resp'.status = 200 /\ resp'.from = "cache" /\ fixes' = fixes
          ELSE ~dbUrl /\ resp'.status = 404 /\ fixes' = fixes
     /\ \A id \in gets \ gets' :
          /\ resp'.op = "fix" /\ resp'.fixId = id
          /\ resp'.status \in {200, 404}
          /\ id \notin DOMAIN diagnoses => resp'.status = 404
          /\ resp'.status = 404 => fixes' = fixes
          /\ resp'.status = 200 =>
               /\ resp'.from = "db" /\ id \in DOMAIN diagnoses
               /\ MapHas(fixes', id)
               /\ MapGet(fixes', id).fixScript = diagnoses[id].fix_script]_vars

\* a result that had left the cache was read from the database and is in
\* the cache again
C5_Repopulated ==
  /\ resp.op = "fix" /\ resp.status = 200 /\ resp.from = "db"
  /\ MapHas(fixes, resp.fixId)
  /\ resp.fixId + CacheCapacity < nextId

\* C6: POST /diagnose answers 200 with the result in the step that stores
\* it, with or without a database, while the write of storeDiagnosis is
\* still waiting; no request with a system object is answered 500; a step
\* of the database, a failing one included, sends nothing and leaves the
\* cache as it was.
C6_WriteNeverBlocks ==
  [][/\ PutStep =>
          /\ resp'.op = "diagnose" /\ resp'.status = 200 /\ resp'.fixId = nextId
          /\ MapHas(fixes', nextId)
          /\ resp'.body = ToJson([f \in DOMAIN MapGet(fixes', nextId) \ InternalKeys |->
                                    MapGet(fixes', nextId)[f]])
          /\ nextId \notin DOMAIN diagnoses'
          /\ dbUrl => \E w \in writes' : w.id = nextId
          /\ ~dbUrl => writes' = {}
     /\ resp'.status # 500
     /\ writes' # writes /\ ~PutStep =>
          /\ resp' = NoResp
          /\ fixes' = fixes]_vars

\* the write of a result failed before its row was inserted, and the
\* result is still in the cache
C6_FailedWriteCached ==
  /\ dbUrl /\ nextId = 2 /\ writes = {}
  /\ 1 \notin DOMAIN diagnoses
  /\ MapHas(fixes, 1)

----------------------------------------------------------------------------
(* Properties of the detection engine and of the composer *)

Reported(id) == dphase # "input" /\ \E i \in 1..Len(detected.items) : detected.items[i].id = id

\* C7: no detection result holds both gateway-zombie and
\* gateway-not-listening, whatever processExists and portListening are:
\* absent, booleans or strings.
C7_ZombieXorNotListening ==
  ~(Reported("gateway-zombie") /\ Reported("gateway-not-listening"))

\* the zombie rule fired on a portListening given as the string 'false'
C7_ZombieFromString ==
  /\ Reported("gateway-zombie")
  /\ diag.openclaw.portListening = "'false'"

\* C8: a detection result that holds gateway-zombie does not hold
\* gateway-not-running, whatever the status text, gatewayPid and the
\* encoding of portListening are.
C8_ZombieExcludesNotRunning ==
  ~(Reported("gateway-zombie") /\ Reported("gateway-not-running"))

\* the rules whose predicate returns a truthy value on d, in registry order
Matching(d) ==
  LET hit == SelectSeq(KNOWN_ISSUES,
                       LAMBDA issue : LET r == Detect(issue.id, d)
                                      IN  r # "throw" /\ Truthy(r))
  IN  [i \in 1..Len(hit) |-> hit[i].id]

\* C9: detectIssues returns for every snapshot, and what it returns are
\* the rules whose predicate returned a truthy value: a predicate that
\* throws counts as no match and stops no other rule.
C9_DetectNeverThrows ==
  dphase = "detected" => /\ ~detected.threw
                         /\ Ids(detected.items) = Matching(diag)

\* a predicate threw and a rule after it was reported
C9_ThrowThenMatch ==
  /\ dphase = "detected"
  /\ \E i \in 1..Len(KNOWN_ISSUES), j \in 1..Len(detected.items) :
       /\ Detect(KNOWN_ISSUES[i].id, diag) = "throw"
       /\ i < RuleIndex(detected.items[j].id)

SeverityRank(s) ==
  CASE s = "critical" -> 0 [] s = "high" -> 1 [] s = "medium" -> 2 [] OTHER -> 3

\* C10: the issues detectIssues returns follow the registry: the rule
\* index grows strictly from each issue to the next.  The knownIssues of the result and the
\* remediation blocks of the script hold the same identifiers in the same
\* order.
C10_RegistryOrder ==
  /\ dphase = "detected" =>
       \A i \in 1..Len(detected.items) - 1 :
         RuleIndex(detected.items[i].id) < RuleIndex(detected.items[i + 1].id)
  /\ dphase = "composed" =>
       /\ Ids(composed[1].knownIssues) = Ids(detected.items)
       /\ FixBlocks(composed[1].fixScript) = Ids(detected.items)

\* a result was composed whose issues are not in order of severity
C10_NotBySeverity ==
  /\ dphase = "composed"
  /\ \E i, j \in 1..Len(detected.items) :
       /\ i < j
       /\ SeverityRank(detected.items[i].severity) > SeverityRank(detected.items[j].severity)
----------------------------------------------------------------------------
(* The composer *)

\* C11: two calls of the composer with the same issue list, the same
\* analysis and the same result id return the same script text, at whatever
\* moments they are made.
C11_Deterministic ==
  \A i, j \in 1..Len(scripts) : scripts[i] = scripts[j]

\* the positions of the lines of a script that copy openclaw.json to a
\* backup: the one of the header and the ones inside remediation templates
BackupLines(script) ==
  {i \in 1..Len(script) :
     \/ script[i].k = BackupCopy
     \/ script[i].k = "fix" /\ KNOWN_ISSUES[RuleIndex(script[i].of)].fix.copiesConfig}

BlockLines(script) == {i \in 1..Len(script) : script[i].k \in {"fix", "additionalFixes"}}

StrictLines(script) == {i \in 1..Len(script) : script[i].k = "set -euo pipefail"}

\* C12: a composed script holds exactly one backup of openclaw.json, under
\* a test that the file exists, and the strict-mode line and that backup
\* come before every remediation block.
C12_OneGuardedBackupFirst ==
  \A n \in 1..Len(scripts) :
     LET s == scripts[n]
     IN  /\ Cardinality(BackupLines(s)) = 1
         /\ \A b \in BackupLines(s) :
               /\ b > 1 /\ s[b - 1].k = "if [ -f ~/.openclaw/openclaw.json ]; then"
               /\ \A f \in BlockLines(s) : b < f
         /\ Cardinality(StrictLines(s)) = 1
         /\ \A t \in StrictLines(s), f \in BlockLines(s) \cup BackupLines(s) : t < f

RestartLines(script) ==
  {i \in 1..Len(script) : script[i].k = "# Restart Gateway to Apply Changes"}

FeedbackLines(script) ==
  {i \in 1..Len(script) : script[i].k = "curl -s -X POST https://clawfix.dev/api/feedback/"}

TemplateMentions(script) ==
  \E i \in 1..Len(script) :
     script[i].k = "fix" /\ KNOWN_ISSUES[RuleIndex(script[i].of)].fix.includesConfig

AugmenterMentions(script) ==
  \E i \in 1..Len(script) : script[i].k = "additionalFixes" /\ MentionsConfig(script[i].of)

\* the restart block, when present, is after all remediation blocks and
\* before the trailing feedback call
RestartPlaced(script) ==
  \A r \in RestartLines(script) :
     /\ \A f \in BlockLines(script) : f < r
     /\ \A c \in FeedbackLines(script) : r < c

\* C13 as stated: a composed script has the restart block exactly when a
\* remediation block in it, the template of a detected issue or the
\* extra-fix text of the augmenter, mentions openclaw.json; the block is
\* after all remediation blocks and before the feedback call.
C13_RestartIffAnyBlockMentions ==
  \A n \in 1..Len(scripts) :
     /\ RestartLines(scripts[n]) # {}
           <=> (TemplateMentions(scripts[n]) \/ AugmenterMentions(scripts[n]))
     /\ RestartPlaced(scripts[n])

\* C13 amended: a composed script has the restart block exactly when the
\* template of a detected issue mentions openclaw.json, whatever the
\* extra-fix text of the augmenter says; the block is after all remediation
\* blocks and before the feedback call.
C13_RestartIffTemplateMentions ==
  \A n \in 1..Len(scripts) :
     /\ Cardinality(RestartLines(scripts[n])) = (IF TemplateMentions(scripts[n]) THEN 1 ELSE 0)
     /\ Cardinality(FeedbackLines(scripts[n])) = 1
     /\ RestartPlaced(scripts[n])

\* a script with a remediation block, none from a template that mentions
\* openclaw.json, and an extra-fix text that does: no restart block
C13_AugmenterAloneNoRestart ==
  \E n \in 1..Len(scripts) :
     /\ \E i \in 1..Len(scripts[n]) : scripts[n][i].k = "fix"
     /\ ~TemplateMentions(scripts[n])
     /\ AugmenterMentions(scripts[n])
     /\ RestartLines(scripts[n]) = {}

\* what a script is meant to repair: the configuration file, the shell rc
\* file, the log file and the workspace files
Target(m) == [config |-> m.config, zshrc |-> m.zshrc, errLog |-> m.errLog, files |-> m.files]

\* C14: running a composed script a second time leaves the configuration
\* file, the shell rc file, the log file and the workspace files as the
\* first run left them.
C14_SecondRunChangesNothing ==
  [][(machine.runs >= 1 /\ machine'.runs = machine.runs + 1)
        => Target(machine') = Target(machine)]_vars

----------------------------------------------------------------------------
(* The augmenter *)

\* the outcomes of callAI that are failures of the external call: it
\* threw, or the answer carried no text
FailedCalls == {call \in AiCalls : ~call.ok \/ call.response = NoResponse}

\* C15: when the external call of the augmenter fails, the diagnose request
\* is still answered 200 with an analysis that is the non-empty sentence
\* counting the detected issues, empty aiInsights, and a script without the
\* block of extra fixes.
C15_FailedCallFallsBack ==
  [][\A i \in 1..Len(posts), call \in FailedCalls :
        AiReturns(i, call) =>
          /\ resp'.status = 200
          /\ \E why \in {"fetch failed", "no API key configured"} :
                resp'.body.analysis = Fallback(Len(posts[i].knownIssues), why).summary
          /\ resp'.body.analysis # "''"
          /\ resp'.body.aiInsights = "''"
          /\ \A n \in 1..Len(resp'.body.fixScript) :
                resp'.body.fixScript[n].k # "additionalFixes"]_vars

\* C16: a diagnose request with a valid payload that waits for the
\* external model is answered in the end, whether or not the model answers.
C16_PendingIsAnswered == (posts # <<>>) ~> (posts = <<>>)

----------------------------------------------------------------------------
(* Pattern statistics *)

\* the detected counter of a rule, 0 while the rule has no row
TimesDetected(id) == IF id \in DOMAIN patterns THEN patterns[id].times_detected ELSE 0

\* the diagnoses whose recording has reached the upsert of a rule
Recorded(id) ==
  {d \in DOMAIN diagnoses :
     \E k \in 1..Len(diagnoses[d].issues_pattern) :
        diagnoses[d].issues_pattern[k] = id /\ Progress(d) >= k + 1}

\* C17: however the queries of concurrent recordings interleave, the
\* detected counter of a rule is the number of diagnoses that have recorded
\* it: each adds exactly 1, the first one creates the row with 1, none is
\* lost.
C17_NoLostIncrement ==
  \A id \in RuleIds : TimesDetected(id) = Cardinality(Recorded(id))

\* two recordings are under way at once: each has upserted its first rule,
\* auto-update-enabled-warning, and neither its second; the counter is 2
C17_TwoInterleavedRecordings ==
  /\ \E a, b \in writes :
        /\ a.id # b.id
        /\ Progress(a.id) = 2 /\ Len(a.result.knownIssues) = 2
        /\ Progress(b.id) = 2 /\ Len(b.result.knownIssues) = 2
  /\ TimesDetected("auto-update-enabled-warning") = 2
  /\ TimesDetected("gateway-zombie") = 0

\* the fixed counter of a rule, 0 while the rule has no row
TimesFixed(id) == IF id \in DOMAIN patterns THEN patterns[id].times_fixed ELSE 0

\* the rows of patterns other than one are left as they were
OnlyRowChanged(id) ==
  /\ DOMAIN patterns' \ {id} = DOMAIN patterns \ {id}
  /\ \A r \in DOMAIN patterns \ {id} : patterns'[r] = patterns[r]

\* the row of a rule after one more fix: the counter is one higher, the
\* rate is the new counter over max(detected, 1), the rest is as it was
FixedOnce(id) ==
  /\ id \in DOMAIN patterns'
  /\ patterns'[id].times_fixed = TimesFixed(id) + 1
  /\ patterns'[id].success_rate =
        [null |-> FALSE, num |-> TimesFixed(id) + 1,
         den |-> IF TimesDetected(id) > 1 THEN TimesDetected(id) ELSE 1]
  /\ patterns'[id].times_detected = TimesDetected(id)
  /\ OnlyRowChanged(id)

\* a call of storeFeedback that runs to its end on success has gone through
\* every rule id attached to the stored result
WentThroughAll(j) ==
  (feedbacks'[j].state = "done" /\ feedbacks[j].success /\ feedbacks'[j].at >= 3)
     => /\ feedbacks'[j].fixId \in DOMAIN diagnoses
        /\ feedbacks'[j].attached = diagnoses[feedbacks'[j].fixId].issues_pattern
        /\ feedbacks'[j].at = 3 + Len(feedbacks'[j].attached)

----------------------------------------------------------------------------
(* Feedback *)

\* C19: a feedback request is answered { received: true, fixId, success }
\* with status 200 whether the identifier has a stored diagnosis or not,
\* with or without a database, and when a query of storeFeedback fails; for
\* an identifier without a stored diagnosis no row of diagnoses or patterns
\* changes.
C19_AlwaysAcknowledged ==
  [][/\ \A fixId \in 1..MaxCalls, success \in BOOLEAN :
           (PostFeedback(fixId, success) /\ ~dbUrl) => resp' = Ack(fixId, success)
     /\ \A j \in 1..Len(feedbacks) :
           /\ (feedbacks[j].state = "run" /\ feedbacks'[j].state # "run")
                 => resp' = Ack(feedbacks[j].fixId, feedbacks[j].success)
           /\ ((FeedbackStep(j) \/ FeedbackFails(j)) /\ feedbacks[j].fixId \notin DOMAIN diagnoses)
                 => (diagnoses' = diagnoses /\ patterns' = patterns)
     /\ resp'.op = "feedback" => (resp'.status = 200 /\ resp'.body.received)]_vars

\* a feedback for an identifier without a stored diagnosis, while a rule
\* has a row in patterns: its INSERT failed and it was acknowledged
C19_UnknownIdAcknowledged ==
  \E j \in 1..Len(feedbacks) :
     /\ feedbacks[j].state = "failed" /\ feedbacks[j].at = 0
     /\ feedbacks[j].fixId \notin DOMAIN diagnoses
     /\ feedbacks[j].success
     /\ resp = Ack(feedbacks[j].fixId, TRUE)
     /\ DOMAIN patterns # {}

----------------------------------------------------------------------------
(* Input validation *)

\* the body of a request is missing or has no system
NoSystem(req) == req.body.kind = "null" \/ req.body.system.kind \in {"undefined", "null"}

----------------------------------------------------------------------------
(* Properties of the rules on absent, boundary and contradictory signals *)

\* the rules that read a recommended path under config.agents.defaults and
\* report when the path is not there
FailOpenRules ==
  {"no-hybrid-search", "no-context-pruning", "no-memory-flush",
   "no-compaction-config", "session-transcript-not-indexed"}

\* the rules that read a toggle and report only when it is switched on
ToggleRules ==
  {"mem0-graph-free", "auto-update-enabled-warning", "auto-update-restart-loop",
   "heartbeat-no-model-override", "high-token-usage"}

\* the toggle rules whose toggle is under config.agents.defaults
DefaultsToggleRules == {"heartbeat-no-model-override", "high-token-usage"}

\* a snapshot that holds system and nothing else
OnlySystem(d) ==
  /\ d.kind = "object"
  /\ d.system.kind = "object"
  /\ \A b \in {"openclaw", "config", "logs", "workspace", "service"} :
       d[b].kind = "undefined"

\* C21: for a snapshot in which only system is present detectIssues
\* returns without throwing, and every rule it reports is one of the rules
\* that fail open on an absent configuration path; no rule about a process,
\* service, log or workspace signal is reported.
C21_BareSnapshotOnlyFailOpen ==
  (dphase = "detected" /\ OnlySystem(diag)) =>
     /\ ~detected.threw
     /\ \A i \in 1..Len(detected.items) : detected.items[i].id \in FailOpenRules

\* a healthy snapshot whose only anomaly is enableGraph = true on a plugin
\* entry other than 'openclaw-mem0' (the field enableGraphOther)
GraphOnOtherEntry(d) ==
  /\ d.kind = "object"
  /\ d.config.kind = "object"
  /\ d.config.enableGraphOther = "true"
  /\ d = [Quiet EXCEPT !.config.enableGraphOther = "true",
                       !.config.enableGraph = d.config.enableGraph,
                       !.config.autoUpdateEnabled = d.config.autoUpdateEnabled]
  /\ d.config.enableGraph # "true"
  /\ d.config.autoUpdateEnabled # "true"

\* C22: a snapshot whose only anomaly is
\* config.plugins.entries["x"].config.enableGraph = true yields exactly one
\* issue of severity critical, and its id is mem0-graph-free.
C22_GraphOnAnyEntryIsCritical ==
  (dphase = "detected" /\ GraphOnOtherEntry(diag)) =>
     LET critical == SelectSeq(detected.items, LAMBDA issue : issue.severity = "critical")
     IN  /\ Len(critical) = 1
         /\ critical[1].id = "mem0-graph-free"

\* a healthy snapshot whose only anomaly is enableGraph = true on the
\* plugin entry 'openclaw-mem0'
GraphOnMem0Entry(d) ==
  /\ d.kind = "object"
  /\ d.config.kind = "object"
  /\ d.config.enableGraph = "true"
  /\ d = [Quiet EXCEPT !.config.enableGraph = "true",
                       !.config.enableGraphOther = d.config.enableGraphOther,
                       !.config.autoUpdateEnabled = d.config.autoUpdateEnabled]
  /\ d.config.autoUpdateEnabled # "true"

\* C22, amended: a snapshot whose only anomaly is
\* config.plugins.entries["openclaw-mem0"].config.enableGraph = true yields
\* mem0-graph-free, of severity critical, and no other issue; enableGraph =
\* true on another plugin entry alone yields no issue.
C22_GraphOnMem0EntryIsCritical ==
  dphase = "detected" =>
     /\ GraphOnMem0Entry(diag) =>
          /\ Ids(detected.items) = <<"mem0-graph-free">>
          /\ detected.items[1].severity = "critical"
     /\ GraphOnOtherEntry(diag) => detected.items = <<>>

\* detection ran on a healthy snapshot with enableGraph = true on the
\* entry 'openclaw-mem0' and on no other entry
C22_GraphOnMem0Detected ==
  /\ dphase = "detected"
  /\ GraphOnMem0Entry(diag)
  /\ diag.config.enableGraphOther = U
  /\ Reported("mem0-graph-free")

ConfigAbsent(d) == d.kind = "object" /\ d.config.kind # "object"

DefaultsAbsent(d) ==
  d.kind = "object" /\ d.config.kind = "object" /\ d.config.defaults.kind # "object"

StatusOf(d) == Words(OrEmpty(GetText(d, "openclaw", "gatewayStatus")))

\* /running.*pid|state active|listening/i
RunningIndicator(status) ==
  \/ Then(status, {"running"}, {"pid"})
  \/ Adjacent(status, "state", "active")
  \/ Has(status, "listening")

\* /not running|failed to start|stopped|inactive/i
SaysNotRunning(status) ==
  \/ Adjacent(status, "not", "running")
  \/ HasAny(status, {"failed to start", "stopped", "inactive"})

\* the zombie case, which the rule leaves to gateway-zombie
LeftToZombie(d) ==
  /\ Get(d, "openclaw", "processExists") = "true"
  /\ Get(d, "openclaw", "portListening") = "false"

\* C24: a status with a running indicator never gives gateway-not-running,
\* whatever the other signals are; and a status that says the gateway is
\* not running is not taken for a running indicator: it gives
\* gateway-not-running unless the case is left to gateway-zombie.
C24_RunningIndicatorAuthoritative ==
  (dphase = "detected" /\ diag.kind = "object") =>
     /\ RunningIndicator(StatusOf(diag)) => ~Reported("gateway-not-running")
     /\ (SaysNotRunning(StatusOf(diag)) /\ ~LeftToZombie(diag)) =>
           Reported("gateway-not-running")

\* C25: oversized-error-log is reported exactly when logs.errLogSizeMB is
\* at least 50, and not when the size is below 50 or absent.
C25_LargeLogFrom50 ==
  (dphase = "detected" /\ diag.kind = "object") =>
     (Reported("oversized-error-log") <=> GetNum(diag, "logs", "errLogSizeMB") >= 50)

\* a branch with no field
Blank(b) ==
  IF b = "workspace"
  THEN [kind |-> "object", hasSoul |-> U, hasAgents |-> U,
        memoryFiles |-> NoNum, mdFiles |-> NoNum]
  ELSE [kind |-> "object", version |-> U, gatewayStatus |-> NoText,
        processExists |-> U, portListening |-> U, gatewayPid |-> U]

\* the snapshot d with the field f of branch b set to v
Put(d, b, f, v) ==
  IF d[b].kind = "object" THEN [d EXCEPT ![b][f] = v]
  ELSE [d EXCEPT ![b] = [Blank(b) EXCEPT ![f] = v]]

\* detectIssues reports the rule on d
Hit(id, d) == Truthy(TryDetect([id |-> id], d))

\* the boolean fields the rules read, each with a rule that reads it
BooleanReads ==
  { <<"workspace", "hasSoul", "no-soul">>,
    <<"workspace", "hasAgents", "missing-agents-md">>,
    <<"openclaw", "processExists", "gateway-not-listening">>,
    <<"openclaw", "portListening", "gateway-not-listening">> }

\* the field is absent and the snapshot gets the issue that it gets with
\* the field false and does not get with the field true
Conflated(b, f, id) ==
  /\ Get(diag, b, f) = U
  /\ Reported(id)
  /\ Hit(id, Put(diag, b, f, "false"))
  /\ ~Hit(id, Put(diag, b, f, "true"))

\* C26: absence is never taken for false: a snapshot in which hasSoul,
\* hasAgents, processExists or portListening (or its whole branch) is
\* absent does not get the issue the same snapshot gets with the field
\* explicitly false.
C26_AbsentIsNotFalse ==
  (dphase = "detected" /\ diag.kind = "object") =>
     \A r \in BooleanReads : ~Conflated(r[1], r[2], r[3])

----------------------------------------------------------------------------
(* Properties of the statistics and of the outcome of a stored diagnosis *)

\* C27: in every state of the pattern table the fixed counter of a rule
\* is at most its detected counter and the stored success rate is at most
\* 1, after any sequence of diagnoses and feedbacks, several success
\* feedbacks for one result included.
C27_FixedAtMostDetected ==
  \A id \in DOMAIN patterns :
     /\ patterns[id].times_fixed <= patterns[id].times_detected
     /\ ~patterns[id].success_rate.null =>
           patterns[id].success_rate.num <= patterns[id].success_rate.den

\* the calls of storeFeedback for an identifier whose row is in feedback
RowsOf(id) == {k \in FeedbackRows : feedbacks[k].fixId = id}

\* the call whose row was appended last
LastRow(id) == CHOOSE k \in RowsOf(id) : \A l \in RowsOf(id) : feedbacks[l].row <= feedbacks[k].row

\* no call for the identifier is between two queries, and none was cut
\* short by a failed query
Settled(id) ==
  \A k \in 1..Len(feedbacks) : feedbacks[k].fixId = id => feedbacks[k].state = "done"

\* C29: once the feedback requests for a stored diagnosis have run, in
\* whatever interleaving, its outcome is 'unknown' exactly if no feedback
\* row exists for it, and otherwise it is the value of the feedback row
\* appended last: 'success' if that feedback reported success, 'failed'
\* if not.
C29_OutcomeIsLastFeedback ==
  \A id \in DOMAIN diagnoses :
     Settled(id) =>
        IF RowsOf(id) = {}
        THEN diagnoses[id].outcome = "'unknown'"
        ELSE diagnoses[id].outcome =
               (IF feedbacks[LastRow(id)].success THEN "'success'" ELSE "'failed'")

----------------------------------------------------------------------------
(* The two sources of GET /fix/:fixId *)

\* the JSON GET /fix/:fixId sends for an identifier when it finds the
\* object fix for it
JsonOf(id, fix) == Send(id, fix, FALSE, "").body

\* C28: for an identifier whose durable write completed GET /fix/:fixId
\* sends the same JSON (the same keys, the same timestamp, issuesFound,
\* knownIssues, analysis, fixScript, aiInsights and model) from the cache
\* entry and from the row it reads when the cache entry is gone.
C28_SameFromCacheOrBackend ==
  \A id \in DOMAIN diagnoses :
     (MapHas(fixes, id) /\ \A w \in writes : w.id # id) =>
        JsonOf(id, MapGet(fixes, id)) = JsonOf(id, FromRow(diagnoses[id], patterns))

----------------------------------------------------------------------------
(* The run of a composed script from its first line to its last *)

\* C30: a run of a composed script enters the remediation block of every
\* detected issue, in the order of the script, then runs the restart block
\* if the script has one, and ends with the feedback call: no remediation
\* block ends the script before the blocks after it have run.
C30_EveryBlockThenRestartAndFeedback ==
  machine.runs >= 1 =>
     /\ machine.ran = FixBlocks(scripts[1])
     /\ RestartLines(scripts[1]) # {} => machine.restarted
     /\ machine.reported
=============================================================================
